---- MODULE Spec2Model ----
(***************************************************************************)
(* Model of code/case_management_osquery_ingester.py: the OSQuery case     *)
(* query pipeline (load, summarize, quarantine of SQL parse errors, JSON   *)
(* export of the four summary sections) and of the pure helpers it uses.   *)
(*                                                                         *)
(* Python strings are modelled as tuples of one-character strings, so that *)
(* substring search, comparison and the regular expressions of the         *)
(* classifier are computed character by character.                         *)
(***************************************************************************)
EXTENDS Integers, Sequences, FiniteSets, TLC

VARIABLES
    pc,                 \* position of load_and_process_columns
    config,             \* summarize_query and generate_json_summary of the configuration
    df_combined,        \* rows of the combined dataset (the columns the program reads)
    query_summary_data, \* list built by the loop of summarize_case_query_data
    df_summarized,      \* summary_df handed to export_views_to_json
    toggles,            \* the four summarize_* arguments of export_views_to_json
    report,             \* the 'data' object written by export_views_to_json
    rerun_report,       \* the 'data' object written when the program is run once more
    files,              \* what is found at the path configured for each dataset
    processed_dataframes, \* names of the datasets load_and_process_columns has stored
    unique_list_of_attributes, \* argument of __sort_attributes_by_characters
    result,             \* its return value
    query_value,        \* one value of the 'Query' column given to the extract_* functions
    extracted,          \* what each extract_* function does with it
    sql_text,           \* an SQL text given to extract_sql_details
    sql_details         \* the tables and attributes it returns

vars == <<pc, config, df_combined, query_summary_data, df_summarized, toggles, report,
          rerun_report, files, processed_dataframes, unique_list_of_attributes, result,
          query_value, extracted, sql_text, sql_details>>

classifier_vars == <<unique_list_of_attributes, result>>
normalizer_vars == <<query_value, extracted>>
extractor_vars == <<sql_text, sql_details>>
loader_vars == <<files, processed_dataframes>>

-----------------------------------------------------------------------------
(* Bounds *)

MaxRecords == 3      \* rows read from the combined CSV
MaxListLen == 2      \* length of a table / attribute list in the quarantine check
MaxTokenLen == 2     \* length of an attribute token given to the classifier
MaxVocabulary == 3   \* number of tokens in the classifier's vocabulary
MaxSqlWords == 4     \* words of an SQL text given to extract_sql_details
MaxClauses == 2      \* comma-separated clauses of a SELECT list

-----------------------------------------------------------------------------
(* Characters and strings *)

\* The characters used by the model, in increasing code point order.
Chars ==
    << "\n", " ", "'", "(", ")", "*", "-", ".",
       "0", "1", "2", "3", "4", "5", "6", "7", "8", "9",
       "A", "B", "C", "D", "E", "F", "G", "H", "I", "J", "K", "L", "M",
       "N", "O", "P", "Q", "R", "S", "T", "U", "V", "W", "X", "Y", "Z",
       "_",
       "a", "b", "c", "d", "e", "f", "g", "h", "i", "j", "k", "l", "m",
       "n", "o", "p", "q", "r", "s", "t", "u", "v", "w", "x", "y", "z",
       "é" >>

ord(c) == CHOOSE i \in 1..Len(Chars) : Chars[i] = c

UpperCase == { Chars[i] : i \in 19..44 }
LowerCase == { Chars[i] : i \in 46..71 }
Digits == { Chars[i] : i \in 9..18 }

\* [a-zA-Z]
AsciiLetter == UpperCase \cup LowerCase
\* [a-zA-Z']
LetterOrApostrophe == AsciiLetter \cup {"'"}
\* [a-zA-Z_]
LetterOrUnderscore == AsciiLetter \cup {"_"}
\* [a-zA-Z0-9]
Alnum == AsciiLetter \cup Digits
\* [a-zA-Z0-9_]
AlnumOrUnderscore == Alnum \cup {"_"}

\* \w of a str pattern: the Unicode word characters, which include the
\* letters outside ASCII.
IsWordCharAscii(c) == c \in AlnumOrUnderscore
IsWordChar(c) == c \in AlnumOrUnderscore \/ c = "é"

\* str.upper() on one character
upper(c) ==
    IF c \in LowerCase THEN Chars[ord(c) - 27]
    ELSE IF c = "é" THEN "É"
    ELSE c

Upper(s) == [i \in 1..Len(s) |-> upper(s[i])]

\* s < t for Python strings: lexicographic by code point
StrLess(s, t) ==
    \E i \in 1..(Len(t)) :
        /\ \A j \in 1..(i-1) : j <= Len(s) /\ s[j] = t[j]
        /\ \/ i = Len(s) + 1
           \/ i <= Len(s) /\ ord(s[i]) < ord(t[i])

RECURSIVE sorted(_)
\* sorted(S) of a set of strings
sorted(S) ==
    IF S = {} THEN <<>>
    ELSE LET m == CHOOSE x \in S : \A y \in S : x = y \/ StrLess(x, y)
         IN <<m>> \o sorted(S \ {m})

Min(S) == CHOOSE x \in S : \A y \in S : x <= y

\* str.find: lowest 0-based index at which search occurs in target, or -1
find(target, search) ==
    LET starts == { i \in 0..(Len(target) - Len(search)) :
                      SubSeq(target, i + 1, i + Len(search)) = search }
    IN IF starts = {} THEN -1 ELSE Min(starts)

Range(s) == { s[i] : i \in 1..Len(s) }

\* All sequences over S of length at most n
SeqsUpTo(S, n) == UNION { [1..k -> S] : k \in 0..n }

\* The orders in which a set can be listed
Listings(S) == { s \in [1..Cardinality(S) -> S] : Range(s) = S }

-----------------------------------------------------------------------------
(* Quarantine of SQL parse errors: _check_for_sql_parse_errors *)

sql_keywords_to_log_and_remove ==
    << <<"J","S","O","N","_","E","A","C","H">>,
       <<"G","R","O","U","P">>,
       <<"G","R","O","U","P","_","C","O","N","C","A","T">>,
       <<"C","H","A","R">>,
       <<"S","E","L","E","C","T">> >>

\* item in elements
In(item, elements) == \E k \in 1..Len(elements) : elements[k] = item

\* any(target.find(search) != -1 for search in elements)
AnyFind(target, elements) ==
    \E k \in 1..Len(elements) : find(target, elements[k]) # -1

\* Variant: removed_items is collected from the filtered list
remove_invalid_elements_and_track_from_filtered(lst, elements) ==
    LET Keep(item) == ~ In(item, elements)
        Drop(item) == In(item, elements)
    IN << SelectSeq(lst, Keep), SelectSeq(SelectSeq(lst, Keep), Drop) >>

\* For tables: full match removal; returns <<filtered_list, removed_items>>
__remove_invalid_elements_and_track(lst, elements) ==
    LET Keep(item) == ~ In(item, elements)
        Drop(item) == In(item, elements)
    IN << SelectSeq(lst, Keep), SelectSeq(lst, Drop) >>

\* Variant: the attribute list is filtered by full match
remove_invalid_elements_exact_match_and_track(lst, elements) ==
    LET Keep(target) == ~ In(target, elements)
        Drop(target) == In(target, elements)
    IN << SelectSeq(lst, Keep), SelectSeq(lst, Drop) >>

\* For attributes: removal of every target that contains a keyword;
\* returns <<filtered_items, removed_items>>
__remove_invalid_elements_fuzzy_match_and_track(lst, elements) ==
    LET Keep(target) == ~ AnyFind(target, elements)
        Drop(target) == AnyFind(target, elements)
    IN << SelectSeq(lst, Keep), SelectSeq(lst, Drop) >>

\* The six column assignments of _check_for_sql_parse_errors on one row
\* The column assignments as they would be if the two 'unique' columns were
\* left as summarize_case_query_data built them
check_row_keeping_unique_columns(row) ==
    [ query_name |-> row.query_name,
      os_query_table_removed_items |->
          __remove_invalid_elements_and_track(row.os_query_table, sql_keywords_to_log_and_remove)[2],
      os_query_table |->
          __remove_invalid_elements_and_track(row.os_query_table, sql_keywords_to_log_and_remove)[1],
      unique_osquery_table |-> row.unique_osquery_table,
      query_attributes_removed_items |->
          __remove_invalid_elements_fuzzy_match_and_track(row.query_attributes, sql_keywords_to_log_and_remove)[2],
      query_attributes |->
          __remove_invalid_elements_fuzzy_match_and_track(row.query_attributes, sql_keywords_to_log_and_remove)[1],
      unique_osquery_attributes |-> row.unique_osquery_attributes ]

check_row_for_sql_parse_errors(row) ==
    [ query_name |-> row.query_name,
      os_query_table_removed_items |->
          __remove_invalid_elements_and_track(row.os_query_table, sql_keywords_to_log_and_remove)[2],
      os_query_table |->
          __remove_invalid_elements_and_track(row.os_query_table, sql_keywords_to_log_and_remove)[1],
      unique_osquery_table |->
          __remove_invalid_elements_and_track(row.unique_osquery_table, sql_keywords_to_log_and_remove)[1],
      query_attributes_removed_items |->
          __remove_invalid_elements_fuzzy_match_and_track(row.query_attributes, sql_keywords_to_log_and_remove)[2],
      query_attributes |->
          __remove_invalid_elements_fuzzy_match_and_track(row.query_attributes, sql_keywords_to_log_and_remove)[1],
      unique_osquery_attributes |->
          __remove_invalid_elements_fuzzy_match_and_track(row.unique_osquery_attributes, sql_keywords_to_log_and_remove)[1] ]

-----------------------------------------------------------------------------
(* Attribute classifier: __sort_attributes_by_characters *)

\* re.match(r"^[class]+$", s): one or more characters of the class; '$' also
\* matches just before a newline that ends the string.
MatchClassPlus(s, class) ==
    \/ Len(s) >= 1 /\ \A i \in 1..Len(s) : s[i] \in class
    \/ Len(s) >= 2 /\ s[Len(s)] = "\n" /\ \A i \in 1..(Len(s) - 1) : s[i] \in class

\* re.search(r"[a-zA-Z]", s)
SearchLetter(s) == \E i \in 1..Len(s) : s[i] \in AsciiLetter

\* re.search(r"\W", s)
SearchNonWord(s) == \E i \in 1..Len(s) : ~ IsWordChar(s[i])

SearchNonWordAscii(s) == \E i \in 1..Len(s) : ~ IsWordCharAscii(s[i])

\* The condition of the first branch
MatchesGroupOne(s) ==
    \/ MatchClassPlus(s, LetterOrApostrophe)
    \/ MatchClassPlus(s, AsciiLetter)
    \/ MatchClassPlus(s, LetterOrUnderscore)
    \/ MatchClassPlus(s, Alnum)
    \/ MatchClassPlus(s, AlnumOrUnderscore)

\* Variant: \W of an ASCII-only pattern
attribute_group_ascii_flag(s) ==
    IF MatchesGroupOne(s) THEN 1
    ELSE IF SearchLetter(s) /\ SearchNonWordAscii(s) THEN 2
    ELSE IF ~ SearchLetter(s) THEN 3
    ELSE 4

\* Variant: the chain has no final else
attribute_group_without_else(s) ==
    IF MatchesGroupOne(s) THEN 1
    ELSE IF SearchLetter(s) /\ SearchNonWord(s) THEN 2
    ELSE IF ~ SearchLetter(s) THEN 3
    ELSE 0

\* The branch of the if/elif chain taken for s: the number of the group
attribute_group(s) ==
    IF MatchesGroupOne(s) THEN 1
    ELSE IF SearchLetter(s) /\ SearchNonWord(s) THEN 2
    ELSE IF ~ SearchLetter(s) THEN 3
    ELSE 4

__sort_attributes_by_characters(attributes) ==
    LET InOne(s) == attribute_group(s) = 1
        InTwo(s) == attribute_group(s) = 2
        InThree(s) == attribute_group(s) = 3
        InFour(s) == attribute_group(s) = 4
    IN [ alphabetical_attributes |-> SelectSeq(attributes, InOne),
         alphabetical_and_non_numeric |-> SelectSeq(attributes, InTwo),
         non_alphabetic |-> SelectSeq(attributes, InThree),
         not_sorted |-> SelectSeq(attributes, InFour) ]

-----------------------------------------------------------------------------
(* Input data of the pipeline *)

Q1 == <<"Q", "1">>
Q2 == <<"Q", "2">>
QueryNames == {Q1, Q2}

users == <<"u","s","e","r","s">>
processes == <<"p","r","o","c","e","s","s","e","s">>
SELECT == <<"S","E","L","E","C","T">>
select == <<"s","e","l","e","c","t">>

pid == <<"p","i","d">>
CHAR == <<"C","H","A","R">>
char == <<"c","h","a","r">>
Char == <<"C","h","a","r">>
GROUP_CONCAT_pid == <<"G","R","O","U","P","_","C","O","N","C","A","T","(","p","i","d",")">>
uid_CHAR == <<"u","i","d","_","C","H","A","R">>
None == <<"N","o","n","e">>

\* SQL commands, each given by what extract_sql_details finds in its text:
\* the identifiers after FROM and the attributes of the SELECT clauses.
SqlCommands ==
    { [tables |-> <<users>>, attributes |-> <<pid>>],
      [tables |-> <<processes>>, attributes |-> <<pid, char>>],
      [tables |-> <<users, SELECT, users>>, attributes |-> <<CHAR, pid, GROUP_CONCAT_pid>>],
      [tables |-> <<>>, attributes |-> <<>>] }

\* Values of the 'Query' column: a missing value, text that is not JSON, or
\* the JSON text of an object with a name and a command.
NaN == [json |-> "NaN"]
Malformed == [json |-> "malformed"]
QueryObjects == { [json |-> "object", name |-> n, command |-> c] : n \in QueryNames, c \in SqlCommands }
QueryValues == {NaN, Malformed} \cup QueryObjects

\* pd.notnull(query)
notnull(query) == query.json # "NaN"
\* json.loads(query) raises JSONDecodeError
JSONDecodeError(query) == query.json = "malformed"

\* tables_queried and extracted_attributes of extract_sql_details
extract_sql_details(sql_query) == << sql_query.tables, sql_query.attributes >>

\* The values a variable holds before it is assigned
NoFrame == [is_frame |-> FALSE, rows |-> <<>>]
NoReport == [written |-> FALSE]
NoToggles == [summarize_osqueries |-> FALSE, summarize_queries_in_dataset |-> FALSE,
              summarize_attributes_in_dataset |-> FALSE, summarize_tables_in_dataset |-> FALSE]
NoResult == [returned |-> FALSE]

-----------------------------------------------------------------------------
(* summarize_case_query_data *)

\* The dictionary appended for one row whose Query decodes
query_summary_entry(row) ==
    LET query_json == row.Query
        details == extract_sql_details(query_json.command)
    IN [ query_name |-> query_json.name,
         os_query_table |-> details[1],
         unique_osquery_table |-> sorted(Range(details[1])),
         query_attributes |-> details[2],
         unique_osquery_attributes |-> sorted(Range(details[2])) ]

RECURSIVE summarize_rows(_)
\* The loop over combined_df.iterrows(): rows without a Query and rows whose
\* Query does not decode append nothing.
summarize_rows(rows) ==
    IF rows = <<>> THEN <<>>
    ELSE LET row == rows[Len(rows)]
             before == summarize_rows(SubSeq(rows, 1, Len(rows) - 1))
         IN IF notnull(row.Query) /\ ~ JSONDecodeError(row.Query)
            THEN Append(before, query_summary_entry(row))
            ELSE before

\* _check_for_sql_parse_errors on the frame built from query_summary_data
_check_for_sql_parse_errors(data) ==
    [i \in 1..Len(data) |-> check_row_for_sql_parse_errors(data[i])]

-----------------------------------------------------------------------------
(* Helpers of export_views_to_json *)

\* JSON values of the report: an object with its members, or an array
Object(members) == [json |-> "object", members |-> members]
Array(items) == [json |-> "array", items |-> items]
EmptyObject == Object(<<>>)

RECURSIVE _flatten(_)
\* [item for sublist in nested_lists for item in sublist]
_flatten(nested_lists) ==
    IF nested_lists = <<>> THEN <<>>
    ELSE nested_lists[1] \o _flatten(Tail(nested_lists))

RECURSIVE Sum(_)
Sum(numbers) == IF numbers = <<>> THEN 0 ELSE numbers[1] + Sum(Tail(numbers))

\* Number of occurrences of x in a list
Count(lst, x) == Cardinality({ i \in 1..Len(lst) : lst[i] = x })

RECURSIVE FirstOccurrences(_)
\* The distinct elements of a list in the order in which they first occur:
\* the insertion order of the keys of a dict or Counter filled from the list
FirstOccurrences(lst) ==
    IF lst = <<>> THEN <<>>
    ELSE LET before == FirstOccurrences(SubSeq(lst, 1, Len(lst) - 1))
             last == lst[Len(lst)]
         IN IF last \in Range(before) THEN before ELSE Append(before, last)

\* sorted(items, key=..., reverse=True): descending by key, elements with
\* equal keys keep their relative order. keys[i] is the key of items[i].
SortedReverseByKey(items, keys) ==
    LET n == Len(items)
        Position(i) == Cardinality({ j \in 1..n : keys[j] > keys[i] })
                       + Cardinality({ j \in 1..(i - 1) : keys[j] = keys[i] }) + 1
    IN [p \in 1..n |-> items[CHOOSE i \in 1..n : Position(i) = p]]

\* round(n / d * 10^k, 0) for n >= 0, d > 0, given n * 10^k as scaled:
\* Python rounds an exact half to the even neighbour
RoundHalfEven(scaled, d) ==
    LET q == scaled \div d
        r == scaled % d
    IN IF 2 * r < d THEN q
       ELSE IF 2 * r > d THEN q + 1
       ELSE IF q % 2 = 0 THEN q ELSE q + 1

\* Variant: groupby(..., sort=False), the groups in order of first occurrence
_query_table_data_unsorted(df) ==
    LET names == FirstOccurrences([i \in 1..Len(df) |-> df[i].query_name])
        Members(name) == LET Named(row) == row.query_name = name
                         IN SelectSeq(df, Named)
        TableList(name) == [i \in 1..Len(Members(name)) |-> Members(name)[i].unique_osquery_table]
        Removed(name) == [i \in 1..Len(Members(name)) |-> Members(name)[i].os_query_table_removed_items]
    IN [g \in 1..Len(names) |->
          [ query_name |-> names[g],
            table_list |-> TableList(names[g]),
            flattened_table_list |-> _flatten(TableList(names[g])),
            os_query_table_removed_items |-> _flatten(Removed(names[g])) ]]

\* _query_table_data: one row per query_name, in the sorted order of the
\* groupby keys, with the grouped unique_osquery_table lists and the grouped
\* os_query_table_removed_items
_query_table_data(df) ==
    LET names == sorted({ df[i].query_name : i \in 1..Len(df) })
        Members(name) == LET Named(row) == row.query_name = name
                         IN SelectSeq(df, Named)
        TableList(name) == [i \in 1..Len(Members(name)) |-> Members(name)[i].unique_osquery_table]
        Removed(name) == [i \in 1..Len(Members(name)) |-> Members(name)[i].os_query_table_removed_items]
    IN [g \in 1..Len(names) |->
          [ query_name |-> names[g],
            table_list |-> TableList(names[g]),
            flattened_table_list |-> _flatten(TableList(names[g])),
            os_query_table_removed_items |-> _flatten(Removed(names[g])) ]]

\* _create_unique_table_list
_create_unique_table_list(df) ==
    sorted(UNION { Range(df[g].flattened_table_list) : g \in 1..Len(df) })

-----------------------------------------------------------------------------
(* add_osquery_query_analysis_summary *)

\* query_execution_percentage = round(frequency / total, 5) * 100, kept as
\* the integer number of thousandths of a percent
query_execution_percentage(frequency_of_execution, total_query_count) ==
    RoundHalfEven(frequency_of_execution * 100000, total_query_count)

__calculate_query_percentage(list_of_query_dicts, total_query_count) ==
    [i \in 1..Len(list_of_query_dicts) |->
        [ query_name |-> list_of_query_dicts[i].query_name,
          frequency_of_execution |-> list_of_query_dicts[i].frequency_of_execution,
          parsing_error_sql_content |-> list_of_query_dicts[i].parsing_error_sql_content,
          unique_tables_queried |-> list_of_query_dicts[i].unique_tables_queried,
          query_execution_percentage |->
              query_execution_percentage(list_of_query_dicts[i].frequency_of_execution, total_query_count) ]]

\* The view as it would be if sorted without reverse=True
__create_queries_by_percentage_ascending(query_list) ==
    LET queries_by_percentage ==
            [i \in 1..Len(query_list) |->
                << query_list[i].query_name, query_list[i].query_execution_percentage >>]
        keys == [i \in 1..Len(query_list) |-> 0 - query_list[i].query_execution_percentage]
    IN SortedReverseByKey(queries_by_percentage, keys)

\* A dict is a list of <<key, value>> pairs in insertion order.  The names of
\* query_list are distinct, so no key is assigned twice.
__create_queries_by_percentage(query_list) ==
    LET queries_by_percentage ==
            [i \in 1..Len(query_list) |->
                << query_list[i].query_name, query_list[i].query_execution_percentage >>]
        keys == [i \in 1..Len(query_list) |-> query_list[i].query_execution_percentage]
    IN SortedReverseByKey(queries_by_percentage, keys)

\* The nested view as it would be if built over query_list directly, in the
\* order of the groups
__create_queries_by_percentage_count_in_list_order(query_list) ==
    [k \in 1..Len(query_list) |->
        << query_list[k].query_name,
           [ query_execution_percentage |-> query_list[k].query_execution_percentage,
             query_execution_count |-> query_list[k].frequency_of_execution ] >>]

__create_queries_by_percentage_count(query_list) ==
    LET queries_by_percentage == __create_queries_by_percentage(query_list)
        Nested(key) ==
            LET query == query_list[CHOOSE i \in 1..Len(query_list) : query_list[i].query_name = key]
            IN [ query_execution_percentage |-> query.query_execution_percentage,
                 query_execution_count |-> query.frequency_of_execution ]
    IN [k \in 1..Len(queries_by_percentage) |->
          << queries_by_percentage[k][1], Nested(queries_by_percentage[k][1]) >>]

\* The loop over the groups as it would be without the set: the tables of
\* every member record, one after the other
osquery_query_summary_list_of_flattened(groups, set_listing) ==
    [g \in 1..Len(groups) |->
        [ query_name |-> groups[g].query_name,
          frequency_of_execution |-> Len(groups[g].table_list),
          parsing_error_sql_content |->
              IF Len(groups[g].os_query_table_removed_items) = 0
              THEN <<None>>
              ELSE groups[g].os_query_table_removed_items,
          unique_tables_queried |-> groups[g].flattened_table_list ]]

\* The loop over the groups; set_listing[g] is the order in which
\* list(set(flattened_table_list)) lists the tables of group g
osquery_query_summary_list(groups, set_listing) ==
    [g \in 1..Len(groups) |->
        [ query_name |-> groups[g].query_name,
          frequency_of_execution |-> Len(groups[g].table_list),
          parsing_error_sql_content |->
              IF Len(groups[g].os_query_table_removed_items) = 0
              THEN <<None>>
              ELSE groups[g].os_query_table_removed_items,
          unique_tables_queried |-> set_listing[g] ]]

\* The listings list(set(...)) can produce for each group: the iteration
\* order of a set of strings is not fixed by the language
SetListings(groups) ==
    LET all == UNION { Listings(Range(groups[g].flattened_table_list)) : g \in 1..Len(groups) }
    IN { l \in [1..Len(groups) -> all] :
           \A g \in 1..Len(groups) : l[g] \in Listings(Range(groups[g].flattened_table_list)) }

\* The section as it would be with the number of distinct query names as the
\* denominator of the percentages
add_osquery_query_analysis_summary_per_distinct_query(summarize_queries_in_dataset, df, set_listing) ==
    IF ~ summarize_queries_in_dataset THEN EmptyObject
    ELSE LET groups == _query_table_data(df)
             summary_list == osquery_query_summary_list(groups, set_listing)
             counter == Len(groups)
             queries == __calculate_query_percentage(summary_list, counter)
         IN Object([ queries |-> queries,
                     queries_by_percentage |-> __create_queries_by_percentage(queries),
                     queries_by_percentage_count |-> __create_queries_by_percentage_count(queries) ])

add_osquery_query_analysis_summary(summarize_queries_in_dataset, df, set_listing) ==
    IF ~ summarize_queries_in_dataset THEN EmptyObject
    ELSE LET groups == _query_table_data(df)
             summary_list == osquery_query_summary_list(groups, set_listing)
             counter == Sum([g \in 1..Len(groups) |-> Len(groups[g].table_list)])
             queries == __calculate_query_percentage(summary_list, counter)
         IN Object([ queries |-> queries,
                     queries_by_percentage |-> __create_queries_by_percentage(queries),
                     queries_by_percentage_count |-> __create_queries_by_percentage_count(queries) ])

-----------------------------------------------------------------------------
(* add_osquery_table_analysis_summary *)

\* Counter(all_occurrences).most_common() as <<table, count>> pairs:
\* descending by count, equal counts in order of first occurrence
most_common(all_occurrences) ==
    LET tables == FirstOccurrences(all_occurrences)
        counts == [t \in 1..Len(tables) |-> Count(all_occurrences, tables[t])]
    IN SortedReverseByKey([t \in 1..Len(tables) |-> << tables[t], counts[t] >>], counts)

\* round((value / total_count) * 100, 2), kept as the integer number of
\* hundredths of a percent
\* The counts as they would be over the de-duplicated lists of the records
_generate_total_table_query_counts_of_unique(df) ==
    LET all_occurrences == _flatten([i \in 1..Len(df) |-> df[i].unique_osquery_table])
        occurrence_count == most_common(all_occurrences)
        total_count == Len(all_occurrences)
        percentage_count ==
            [t \in 1..Len(occurrence_count) |->
                << occurrence_count[t][1], RoundHalfEven(occurrence_count[t][2] * 10000, total_count) >>]
    IN << occurrence_count, percentage_count >>

_generate_total_table_query_counts(df) ==
    LET all_occurrences == _flatten([i \in 1..Len(df) |-> df[i].os_query_table])
        occurrence_count == most_common(all_occurrences)
        total_count == Len(all_occurrences)
        percentage_count ==
            [t \in 1..Len(occurrence_count) |->
                << occurrence_count[t][1], RoundHalfEven(occurrence_count[t][2] * 10000, total_count) >>]
    IN << occurrence_count, percentage_count >>

\* The entries result[query_table] after the loop over the rows: one entry
\* per query name, in order of first occurrence, counting the occurrences of
\* the table in the rows of that name
table_entries(df, query_table) ==
    LET Touching(row) == query_table \in Range(row.os_query_table)
        names == FirstOccurrences([i \in 1..Len(SelectSeq(df, Touching)) |->
                                      SelectSeq(df, Touching)[i].query_name])
        Times(name) == Sum([i \in 1..Len(df) |->
                              IF df[i].query_name = name
                              THEN Count(df[i].os_query_table, query_table) ELSE 0])
    IN [e \in 1..Len(names) |->
          [query_name |-> names[e], number_of_times_queried |-> Times(names[e])]]

\* __compute_total_queries on one list
__compute_total_queries(queries) ==
    << [total_queries |-> Sum([e \in 1..Len(queries) |-> queries[e].number_of_times_queried])] >>
    \o queries

\* The view as it would be without the final sort: tables in order of first
\* occurrence
_generate_table_counts_by_query_unsorted(df) ==
    LET tables == FirstOccurrences(_flatten([i \in 1..Len(df) |-> df[i].os_query_table]))
    IN [t \in 1..Len(tables) |->
          << tables[t], __compute_total_queries(table_entries(df, tables[t])) >>]

_generate_table_counts_by_query(df) ==
    LET tables == FirstOccurrences(_flatten([i \in 1..Len(df) |-> df[i].os_query_table]))
        result_items == [t \in 1..Len(tables) |->
                            << tables[t], __compute_total_queries(table_entries(df, tables[t])) >>]
        totals == [t \in 1..Len(tables) |-> result_items[t][2][1].total_queries]
    IN SortedReverseByKey(result_items, totals)

\* The parameter summarize_tables_in_dataet is not read
add_osquery_table_analysis_summary(summarize_tables_in_dataet, df) ==
    Object([ unique_table_list |-> _create_unique_table_list(_query_table_data(df)),
             total_table_query_count |-> _generate_total_table_query_counts(df),
             table_counts_by_queries |-> _generate_table_counts_by_query(df) ])

-----------------------------------------------------------------------------
(* add_osquery_attribute_analysis_summary *)

__create_unique_attribute_list(df) ==
    sorted(UNION { Range(df[i].unique_osquery_attributes) : i \in 1..Len(df) })

add_osquery_attribute_analysis_summary(summarize_attributes_in_dataset, df) ==
    IF ~ summarize_attributes_in_dataset THEN EmptyObject
    ELSE LET osquery_unique_attribute_list == __create_unique_attribute_list(df)
             osquery_unique_attribute_list_sorted ==
                 __sort_attributes_by_characters(osquery_unique_attribute_list)
         IN Object([ valid_attributes |-> osquery_unique_attribute_list_sorted.alphabetical_attributes,
                     valid_attributes_and_sql |-> osquery_unique_attribute_list_sorted.alphabetical_and_non_numeric,
                     invalid_attributes |-> osquery_unique_attribute_list_sorted.non_alphabetic,
                     not_sorted |-> osquery_unique_attribute_list_sorted.not_sorted,
                     unique_attribute_list |-> osquery_unique_attribute_list,
                     incorrectly_parsed_attributes |-> <<>> ])

-----------------------------------------------------------------------------
(* add_osquery_data_stats_summary *)

\* A cell of 'Possible Cases' is a text; ast.literal_eval gives the list it
\* spells or raises ValueError / SyntaxError
CaseList(items) == [literal |-> "list", items |-> items]
NoLiteral == [literal |-> "malformed"]
\* A cell that ast.literal_eval reads as a str: iterating it gives its characters
CaseString(characters) ==
    [literal |-> "string", items |-> [k \in 1..Len(characters) |-> << characters[k] >>]]
\* A cell that holds a number
CaseNumber == [literal |-> "number"]

\* pd.read_csv reads a column of numbers only as numbers, which
\* ast.literal_eval rejects with ValueError; next to a cell of text the
\* number stays a str, ast.literal_eval returns an int, and
\* unique_values.update(value_list) raises TypeError, which the except clause
\* of _case_counts does not name
_case_counts_raises(column) ==
    /\ \E i \in 1..Len(column) : column[i].literal = "number"
    /\ \E i \in 1..Len(column) : column[i].literal # "number"

\* _case_counts: cells that are no literal are skipped; the elements of any
\* other iterable value are counted
_case_counts(column) ==
    LET lists == { i \in 1..Len(column) : column[i].literal \in {"list", "string"} }
    IN << Cardinality(UNION { Range(column[i].items) : i \in lists }),
          Sum([i \in 1..Len(column) |->
                  IF i \in lists THEN Len(column[i].items) ELSE 0]) >>

Whitespace == {" ", "\n"}

RECURSIVE strip(_)
\* str.strip()
strip(s) ==
    IF s # <<>> /\ s[1] \in Whitespace THEN strip(Tail(s))
    ELSE IF s # <<>> /\ s[Len(s)] \in Whitespace THEN strip(SubSeq(s, 1, Len(s) - 1))
    ELSE s

\* _customer_counts: every cell is counted
_customer_counts(column) ==
    << Cardinality({ strip(column[i]) : i \in 1..Len(column) }), Len(column) >>

\* The set unique_values of _unique_region_list, which is returned as
\* list(unique_values)
_unique_region_list(column) == { strip(column[i]) : i \in 1..Len(column) }

RECURSIVE Number(_)
\* The number a string of digits spells
Number(digits) ==
    IF digits = <<>> THEN 0
    ELSE 10 * Number(SubSeq(digits, 1, Len(digits) - 1))
           + (CHOOSE d \in 0..9 : Chars[9 + d] = digits[Len(digits)])

IsLeap(year) == year % 4 = 0 /\ (year % 100 # 0 \/ year % 400 = 0)

DaysInMonth(year, month) ==
    IF month = 2 THEN (IF IsLeap(year) THEN 29 ELSE 28)
    ELSE IF month \in {4, 6, 9, 11} THEN 30 ELSE 31

NoDate == [valid |-> FALSE]

\* datetime.strptime(date_string, "%Y-%m-%d"): the format is the regular
\* expression (\d\d\d\d)-(1[0-2]|0[1-9]|[1-9])-(3[01]|[12]\d|0[1-9]|[1-9]| [1-9])
\* that must use up the whole string, and the fields must make a date.
strptime(date_string) ==
    LET dashes == { i \in 1..Len(date_string) : date_string[i] = "-" }
    IN IF Cardinality(dashes) # 2 THEN NoDate
       ELSE LET first == Min(dashes)
                second == CHOOSE i \in dashes : i # first
                Y == SubSeq(date_string, 1, first - 1)
                m == SubSeq(date_string, first + 1, second - 1)
                d == SubSeq(date_string, second + 1, Len(date_string))
                AllDigits(s) == \A i \in 1..Len(s) : s[i] \in Digits
                day_digits == IF Len(d) = 2 /\ d[1] = " " THEN Tail(d) ELSE d
            IN IF /\ Len(Y) = 4 /\ AllDigits(Y) /\ Number(Y) >= 1
                  /\ Len(m) \in {1, 2} /\ AllDigits(m) /\ Number(m) \in 1..12
                  /\ Len(d) \in {1, 2} /\ AllDigits(day_digits) /\ Number(day_digits) >= 1
                  /\ Number(day_digits) <= DaysInMonth(Number(Y), Number(m))
               THEN [valid |-> TRUE, year |-> Number(Y), month |-> Number(m),
                     day |-> Number(day_digits)]
               ELSE NoDate

\* The decimal digits of number, zero-padded to width
Padded(number, width) ==
    [i \in 1..width |-> Chars[9 + ((number \div (10 ^ (width - i))) % 10)]]

\* str(date) of a datetime at midnight
str_datetime(date) ==
    Padded(date.year, 4) \o <<"-">> \o Padded(date.month, 2) \o <<"-">> \o Padded(date.day, 2)
        \o <<" ", "0", "0", ":", "0", "0", ":", "0", "0">>

\* The set unique_values of _date_range, which is returned as
\* list(unique_values): one string per distinct date that parses
_date_range(column) ==
    { str_datetime(strptime(strip(column[i]))) :
        i \in { j \in 1..Len(column) : strptime(strip(column[j])).valid } }

Column(combined, name) == [i \in 1..Len(combined) |-> combined[i][name]]

\* The trailing comma of the assignment makes stats a one-element tuple, which
\* is serialized as an array.  region_list and date_range are the orders in
\* which list(unique_values) lists the two sets.
add_osquery_data_stats_summary(summarize_osqueries, combined, region_list, date_range) ==
    IF ~ summarize_osqueries THEN EmptyObject
    ELSE LET case_counts == _case_counts(Column(combined, "Possible_Cases"))
             customer_counts == _customer_counts(Column(combined, "Customer_ID"))
         IN Array(<< [ total_number_queries_analyzed |-> Len(combined),
                       number_of_unique_cases |-> case_counts[1],
                       total_number_of_cases_analyzed |-> case_counts[2],
                       number_of_unique_customers |-> customer_counts[1],
                       total_number_of_customers_analyzed |-> customer_counts[2],
                       region_list |-> region_list,
                       date_range |-> date_range ] >>)

\* The 'data' object of export_views_to_json
osquery_summary(args, combined, df, set_listing, region_list, date_range) ==
    [ os_query_data_analysis_stats |->
          add_osquery_data_stats_summary(args.summarize_osqueries, combined, region_list, date_range),
      os_query_input_query_summary |->
          add_osquery_query_analysis_summary(args.summarize_queries_in_dataset, df, set_listing),
      os_query_table_analysis_summary |->
          add_osquery_table_analysis_summary(args.summarize_tables_in_dataset, df),
      os_query_attribute_analysis_summary |->
          add_osquery_attribute_analysis_summary(args.summarize_attributes_in_dataset, df) ]

-----------------------------------------------------------------------------
(* extract_sql_details and extract_attribute_names on the text of a command *)

\* The literal occurs in s at position p, whatever the case of the letters
\* (re.IGNORECASE)
MatchesAt(s, p, literal) ==
    /\ p >= 1
    /\ p + Len(literal) - 1 <= Len(s)
    /\ Upper(SubSeq(s, p, p + Len(literal) - 1)) = Upper(literal)

\* The position after the longest run of \s, and of \w, that starts at p
SpaceRunEnd(s, p) == Min({ q \in p..(Len(s) + 1) : q = Len(s) + 1 \/ s[q] \notin Whitespace })
WordRunEnd(s, p) == Min({ q \in p..(Len(s) + 1) : q = Len(s) + 1 \/ ~ IsWordChar(s[q]) })

FROM == <<"F","R","O","M">>
AS == <<"A","S">>

RECURSIVE table_pattern_findall(_, _)
\* re.compile(r'FROM\s+(\w+)', re.IGNORECASE).findall(sql_query), scanning
\* from position p: the matches do not overlap, and the pattern has no \b
table_pattern_findall(sql_query, p) ==
    IF p > Len(sql_query) THEN <<>>
    ELSE LET name == SpaceRunEnd(sql_query, p + 4)
             end == WordRunEnd(sql_query, name)
         IN IF MatchesAt(sql_query, p, FROM) /\ name > p + 4 /\ end > name
            THEN << SubSeq(sql_query, name, end - 1) >> \o table_pattern_findall(sql_query, end)
            ELSE table_pattern_findall(sql_query, p + 1)

RECURSIVE select_segments_findall(_, _)
\* re.findall(r'SELECT\s+(.*?)\s+FROM', sql, re.DOTALL | re.IGNORECASE),
\* scanning from position p.  \s+ first takes all the whitespace after
\* SELECT and (.*?) then ends at the first whitespace run that FROM follows;
\* when there is none, \s+ gives whitespace back so that the group is empty.
select_segments_findall(sql, p) ==
    IF p > Len(sql) THEN <<>>
    ELSE LET start == SpaceRunEnd(sql, p + 6)
             ends == { e \in start..Len(sql) :
                         sql[e] \in Whitespace /\ MatchesAt(sql, SpaceRunEnd(sql, e), FROM) }
         IN IF ~ (MatchesAt(sql, p, <<"S","E","L","E","C","T">>) /\ start > p + 6)
            THEN select_segments_findall(sql, p + 1)
            ELSE IF ends # {}
            THEN << SubSeq(sql, start, Min(ends) - 1) >>
                    \o select_segments_findall(sql, SpaceRunEnd(sql, Min(ends)) + 4)
            ELSE IF start >= p + 8 /\ MatchesAt(sql, start, FROM)
            THEN << <<>> >> \o select_segments_findall(sql, start + 4)
            ELSE select_segments_findall(sql, p + 1)

RECURSIVE split(_, _)
\* str.split(separator) for a separator of one character
split(s, separator) ==
    LET at == { i \in 1..Len(s) : s[i] = separator }
    IN IF at = {} THEN << s >>
       ELSE << SubSeq(s, 1, Min(at) - 1) >> \o split(SubSeq(s, Min(at) + 1, Len(s)), separator)

\* The positions of item where \bAS matches and where \bAS\b matches
AsStarts(item) ==
    { i \in 1..Len(item) : MatchesAt(item, i, AS) /\ (i = 1 \/ ~ IsWordChar(item[i - 1])) }
AsKeywords(item) ==
    { i \in AsStarts(item) : i + 2 > Len(item) \/ ~ IsWordChar(item[i + 2]) }

\* The positions where \bAS\s+(\w+) matches
AliasStarts(item) ==
    { i \in AsStarts(item) :
        /\ SpaceRunEnd(item, i + 2) > i + 2
        /\ WordRunEnd(item, SpaceRunEnd(item, i + 2)) > SpaceRunEnd(item, i + 2) }

\* alias_match.group(1) of the leftmost match
alias_group(item) ==
    LET name == SpaceRunEnd(item, Min(AliasStarts(item)) + 2)
    IN SubSeq(item, name, WordRunEnd(item, name) - 1)

\* re.search(r'STRFTIME|JSON_EXTRACT|datetime\(', item, re.IGNORECASE)
search_excluded(item) ==
    \E i \in 1..Len(item) :
        \/ MatchesAt(item, i, <<"S","T","R","F","T","I","M","E">>)
        \/ MatchesAt(item, i, <<"J","S","O","N","_","E","X","T","R","A","C","T">>)
        \/ MatchesAt(item, i, <<"d","a","t","e","t","i","m","e","(">>)

all_columns_returned == <<"*"," ","(","a","l","l"," ","c","o","l","u","m","n","s"," ","r","e","t","u","r","n","e","d",")">>

\* The body of the loop as it would be with the alias rule tried first
attributes_of_item_alias_first(item) ==
    IF AsKeywords(item) # {}
    THEN (IF AliasStarts(item) # {} THEN << alias_group(item) >> ELSE <<>>)
    ELSE IF "*" \in Range(item) THEN << all_columns_returned >>
    ELSE IF "." \in Range(item) THEN << split(item, ".")[2] >>
    ELSE IF ~ search_excluded(item) THEN << item >>
    ELSE <<>>

\* The body of the loop over the stripped items: what is appended to
\* attributes for one item
attributes_of_item(item) ==
    IF "*" \in Range(item) THEN << all_columns_returned >>
    ELSE IF AsKeywords(item) # {}
    THEN (IF AliasStarts(item) # {} THEN << alias_group(item) >> ELSE <<>>)
    ELSE IF "." \in Range(item) THEN << split(item, ".")[2] >>
    ELSE IF ~ search_excluded(item) THEN << item >>
    ELSE <<>>

\* The stripped items of all select segments, in order
select_items(sql) ==
    LET select_segments == select_segments_findall(sql, 1)
        segments == _flatten([k \in 1..Len(select_segments) |-> split(select_segments[k], ",")])
    IN [i \in 1..Len(segments) |-> strip(segments[i])]

extract_attribute_names(sql) ==
    _flatten([i \in 1..Len(select_items(sql)) |-> attributes_of_item(select_items(sql)[i])])

\* tables_queried and extracted_attributes of extract_sql_details; the CASE
\* descriptions it also returns are not read by its caller
extract_sql_details_of_text(sql_query) ==
    [ tables_queried |-> table_pattern_findall(sql_query, 1),
      extracted_attributes |-> extract_attribute_names(sql_query) ]

-----------------------------------------------------------------------------
(* The extract_* functions applied to the 'Query' column *)

\* A value of the 'Query' column is NaN, a text that does not decode, or a
\* text that decodes, which is written as the JSON value it decodes to:
\* null, a number, a string, an array or an object.  The members of an
\* object are a function from its keys to JSON values.
JsonNull == [json |-> "null"]
JsonNumber == [json |-> "number"]
JsonString(chars) == [json |-> "string", chars |-> chars]

\* What a call does: it returns a value or raises an exception
Returned(value) == [raised |-> FALSE, value |-> value]
Raised(error) == [raised |-> TRUE, error |-> error]

\* The sentinel strings of the extract_* functions
Unnamed == <<"U","n","n","a","m","e","d">>
SQL_statement_not_available == <<"S","Q","L"," ","s","t","a","t","e","m","e","n","t"," ","n","o","t"," ","a","v","a","i","l","a","b","l","e">>
Type_not_available == <<"T","y","p","e"," ","n","o","t"," ","a","v","a","i","l","a","b","l","e">>
ID_not_available == <<"I","D"," ","n","o","t"," ","a","v","a","i","l","a","b","l","e">>
Categories_not_available == <<"C","a","t","e","g","o","r","i","e","s"," ","n","o","t"," ","a","v","a","i","l","a","b","l","e">>

\* dict.get(key, default)
get(object, key, default) ==
    IF key \in DOMAIN object.members THEN object.members[key] ELSE default

RECURSIVE replace(_, _, _)
\* str.replace(old, new) for a non-empty old
replace(s, old, new) ==
    IF Len(s) < Len(old) THEN s
    ELSE IF SubSeq(s, 1, Len(old)) = old
         THEN new \o replace(SubSeq(s, Len(old) + 1, Len(s)), old, new)
         ELSE <<s[1]>> \o replace(Tail(s), old, new)

RECURSIVE join(_, _)
\* separator.join(names)
join(separator, names) ==
    IF names = <<>> THEN <<>>
    ELSE IF Len(names) = 1 THEN names[1]
    ELSE names[1] \o separator \o join(separator, Tail(names))

\* The shape shared by extract_name, extract_principal_type,
\* extract_query_id and extract_query_type: only JSONDecodeError is caught,
\* so .get on a decoded value that is no object raises AttributeError
get_or_sentinel(query, key, sentinel) ==
    IF ~ notnull(query) \/ JSONDecodeError(query) THEN Returned(JsonString(sentinel))
    ELSE IF query.json # "object" THEN Raised("AttributeError")
    ELSE Returned(get(query, key, JsonString(sentinel)))

extract_name(query) == get_or_sentinel(query, "name", Unnamed)

extract_principal_type(query) == get_or_sentinel(query, "principalType", Type_not_available)

extract_query_id(query) == get_or_sentinel(query, "queryId", ID_not_available)

extract_query_type(query) == get_or_sentinel(query, "queryType", Type_not_available)

\* .replace is called on whatever .get returns, and the result is quoted
extract_command(query) ==
    IF ~ notnull(query) \/ JSONDecodeError(query)
    THEN Returned(JsonString(<<"\"">> \o SQL_statement_not_available \o <<"\"">>))
    ELSE IF query.json # "object" THEN Raised("AttributeError")
    ELSE LET command == get(query, "command", JsonString(SQL_statement_not_available))
         IN IF command.json # "string" THEN Raised("AttributeError")
            ELSE LET command_value == replace(command.chars, <<"\\", "n">>, <<"\n">>)
                 IN Returned(JsonString(<<"\"">> \o command_value \o <<"\"">>))

\* The comprehension calls .get on every element of categories, then the
\* names are joined
extract_query_categories(query) ==
    IF ~ notnull(query) \/ JSONDecodeError(query)
    THEN Returned(JsonString(Categories_not_available))
    ELSE IF query.json # "object" THEN Raised("AttributeError")
    ELSE LET categories == get(query, "categories", Array(<<>>))
         IN IF categories.json \in {"null", "number"} THEN Raised("TypeError")
            ELSE IF categories.json = "string"
                 THEN IF categories.chars = <<>> THEN Returned(JsonString(<<>>))
                      ELSE Raised("AttributeError")
            ELSE IF categories.json = "object"
                 THEN IF DOMAIN categories.members = {} THEN Returned(JsonString(<<>>))
                      ELSE Raised("AttributeError")
            ELSE LET items == categories.items
                     names == [i \in 1..Len(items) |-> get(items[i], "name", JsonString(<<>>))]
                 IN IF \E i \in 1..Len(items) : items[i].json # "object"
                    THEN Raised("AttributeError")
                    ELSE IF \E i \in 1..Len(items) : names[i].json # "string"
                    THEN Raised("TypeError")
                    ELSE Returned(JsonString(join(<<",", " ">>,
                                                  [i \in 1..Len(items) |-> names[i].chars])))

\* The six columns added to the combined dataset, for one value of 'Query'
extracted_columns(query) ==
    [ extracted_name |-> extract_name(query),
      extracted_sql_statement |-> extract_command(query),
      extracted_principal_type |-> extract_principal_type(query),
      extracted_query_id |-> extract_query_id(query),
      extracted_query_type |-> extract_query_type(query),
      extracted_query_categories |-> extract_query_categories(query) ]

-----------------------------------------------------------------------------
(* The pipeline: load_and_process_columns from the loaded combined dataset *)

\* A row of the combined dataset: the columns the program reads
Row(Query, Possible_Cases, Customer_ID, Region, Created_At_UTC) ==
    [ Query |-> Query, Possible_Cases |-> Possible_Cases, Customer_ID |-> Customer_ID,
      Region |-> Region, Created_At_UTC |-> Created_At_UTC ]

c1 == <<"c","1">>
g1 == <<"g","1">>
us == <<"u","s">>
eu == <<"e","u">>
December_27 == <<"2","0","2","4","-","1","2","-","2","7">>

\* A row of one case of one customer, of region us, created on 2024-12-27
RowOfQuery(Query) == Row(Query, CaseList(<<c1>>), g1, us, December_27)

Rows == { RowOfQuery(q) : q \in QueryValues }

Configs == [summarize_query : BOOLEAN, generate_json_summary : BOOLEAN]

Toggles == [summarize_osqueries : BOOLEAN, summarize_queries_in_dataset : BOOLEAN,
            summarize_attributes_in_dataset : BOOLEAN, summarize_tables_in_dataset : BOOLEAN]

ClassifierIdle ==
    /\ unique_list_of_attributes = <<>>
    /\ result = NoResult

\* The three datasets of the configuration, in the order they are loaded
Datasets == <<"case_manager_data", "osquery_data", "combined_case_query_data">>

\* Every configured file has been read
AllLoaded ==
    /\ files = [d \in Range(Datasets) |-> "present"]
    /\ processed_dataframes = Range(Datasets)

NormalizerIdle ==
    /\ query_value = NaN
    /\ extracted = <<>>

ExtractorIdle ==
    /\ sql_text = <<>>
    /\ sql_details = <<>>

\* The combined CSV has been read into df_combined
Init ==
    /\ pc = "loaded"
    /\ config \in Configs
    /\ df_combined \in SeqsUpTo(Rows, MaxRecords)
    /\ query_summary_data = <<>>
    /\ df_summarized = NoFrame
    /\ toggles = NoToggles
    /\ report = NoReport
    /\ rerun_report = NoReport
    /\ AllLoaded
    /\ ClassifierIdle
    /\ NormalizerIdle
    /\ ExtractorIdle

\* summary_df = summarize_case_query_data(config, combined_df, summarize_query).
\* The frame built from an empty list has no column, so the first column
\* access of _check_for_sql_parse_errors raises KeyError.
SummarizeCaseQueryData ==
    /\ pc = "loaded"
    /\ config.summarize_query
    /\ query_summary_data' = summarize_rows(df_combined)
    /\ IF query_summary_data' = <<>>
       THEN /\ pc' = "raised"
            /\ UNCHANGED df_summarized
       ELSE /\ pc' = "summarized"
            /\ df_summarized' = [is_frame |-> TRUE,
                                 rows |-> _check_for_sql_parse_errors(query_summary_data')]
    /\ UNCHANGED <<config, df_combined, toggles, report, rerun_report,
                   loader_vars, classifier_vars, normalizer_vars, extractor_vars>>

\* summarize_query is off: summary_df stays the class pd.DataFrame
SkipSummarize ==
    /\ pc = "loaded"
    /\ ~ config.summarize_query
    /\ pc' = "summarized"
    /\ UNCHANGED <<config, df_combined, query_summary_data, df_summarized, toggles, report,
                   rerun_report, loader_vars, classifier_vars, normalizer_vars, extractor_vars>>

\* export_views_to_json(combined_df, summary_df, path, ...) called with the
\* four summarize_* arguments t.  The table section is computed whatever
\* the arguments are, so a summary_df that is no frame always raises.
ExportViewsToJsonWith(t) ==
    /\ pc = "summarized"
    /\ config.generate_json_summary
    /\ toggles' = t
    /\ IF \/ t.summarize_osqueries /\ _case_counts_raises(Column(df_combined, "Possible_Cases"))
          \/ ~ df_summarized.is_frame
       THEN /\ pc' = "raised"
            /\ UNCHANGED report
       ELSE /\ pc' = "done"
            /\ \E set_listing \in SetListings(_query_table_data(df_summarized.rows)),
                  region_list \in Listings(_unique_region_list(Column(df_combined, "Region"))),
                  date_range \in Listings(_date_range(Column(df_combined, "Created_At_UTC"))) :
                  report' = [ written |-> TRUE,
                              osquery_summary |->
                                  osquery_summary(t, df_combined, df_summarized.rows,
                                                  set_listing, region_list, date_range) ]
    /\ UNCHANGED <<config, df_combined, query_summary_data, df_summarized, rerun_report,
                   loader_vars, classifier_vars, normalizer_vars, extractor_vars>>

\* export_views_to_json for any value of its four summarize_* arguments
ExportViewsToJson == \E t \in Toggles : ExportViewsToJsonWith(t)

\* generate_json_summary is off
SkipExport ==
    /\ pc = "summarized"
    /\ ~ config.generate_json_summary
    /\ pc' = "done"
    /\ UNCHANGED <<config, df_combined, query_summary_data, df_summarized, toggles, report,
                   rerun_report, loader_vars, classifier_vars, normalizer_vars, extractor_vars>>

Next ==
    \/ SummarizeCaseQueryData
    \/ SkipSummarize
    \/ ExportViewsToJson
    \/ SkipExport

Spec == Init /\ [][Next]_vars

-----------------------------------------------------------------------------
(* The program run a second time on the same files and configuration *)

\* main() once more: the rows, the facts and the cleaned frame are computed
\* as before, and every list(set(...)) is listed anew
RunAgain ==
    /\ pc = "done"
    /\ report.written
    /\ ~ rerun_report.written
    /\ \E set_listing \in SetListings(_query_table_data(df_summarized.rows)),
          region_list \in Listings(_unique_region_list(Column(df_combined, "Region"))),
          date_range \in Listings(_date_range(Column(df_combined, "Created_At_UTC"))) :
          rerun_report' = [ written |-> TRUE,
                            osquery_summary |->
                                osquery_summary(toggles, df_combined, df_summarized.rows,
                                                set_listing, region_list, date_range) ]
    /\ UNCHANGED <<pc, config, df_combined, query_summary_data, df_summarized, toggles, report,
                   loader_vars, classifier_vars, normalizer_vars, extractor_vars>>

NextRerun ==
    \/ SummarizeCaseQueryData
    \/ SkipSummarize
    \/ ExportViewsToJson
    \/ SkipExport
    \/ RunAgain

SpecRerun == Init /\ [][NextRerun]_vars

-----------------------------------------------------------------------------
(* The quarantine on arbitrary extracted lists *)

GROUPS == <<"G","R","O","U","P","S">>

QuarantineTables == {users, SELECT, select, GROUPS, CHAR}
QuarantineAttributes == {pid, CHAR, char, Char, uid_CHAR, GROUP_CONCAT_pid, SELECT}

\* One row named Q1 whose command yields any table list and attribute list
InitQuarantine ==
    /\ pc = "loaded"
    /\ config = [summarize_query |-> TRUE, generate_json_summary |-> FALSE]
    /\ \E tables \in SeqsUpTo(QuarantineTables, MaxListLen),
          attributes \in SeqsUpTo(QuarantineAttributes, MaxListLen) :
          df_combined = << RowOfQuery([json |-> "object", name |-> Q1,
                                       command |-> [tables |-> tables, attributes |-> attributes]]) >>
    /\ query_summary_data = <<>>
    /\ df_summarized = NoFrame
    /\ toggles = NoToggles
    /\ report = NoReport
    /\ rerun_report = NoReport
    /\ AllLoaded
    /\ ClassifierIdle
    /\ NormalizerIdle
    /\ ExtractorIdle

NextQuarantine ==
    \/ SummarizeCaseQueryData
    \/ SkipExport

SpecQuarantine == InitQuarantine /\ [][NextQuarantine]_vars

-----------------------------------------------------------------------------
(* The classifier on arbitrary vocabularies *)

ClassifierAlphabet == {"a", "Z", "1", "_", "'", "-", "é", "\n"}

\* Tokens of up to MaxTokenLen characters, and the tokens of at most one character
ClassifierTokens == SeqsUpTo(ClassifierAlphabet, MaxTokenLen)
ShortTokens == SeqsUpTo(ClassifierAlphabet, 1)

\* unique_list_of_attributes is sorted(list(unique_attributes)): here any
\* token together with up to MaxVocabulary - 1 short ones
InitClassifier ==
    /\ pc = "classify"
    /\ config = [summarize_query |-> FALSE, generate_json_summary |-> FALSE]
    /\ df_combined = <<>>
    /\ query_summary_data = <<>>
    /\ df_summarized = NoFrame
    /\ toggles = NoToggles
    /\ report = NoReport
    /\ rerun_report = NoReport
    /\ AllLoaded
    /\ NormalizerIdle
    /\ ExtractorIdle
    /\ \E token \in ClassifierTokens, others \in SeqsUpTo(ShortTokens, MaxVocabulary - 1) :
          unique_list_of_attributes = sorted({token} \cup Range(others))
    /\ result = NoResult

SortAttributesByCharacters ==
    /\ pc = "classify"
    /\ pc' = "classified"
    /\ result' = __sort_attributes_by_characters(unique_list_of_attributes)
    /\ UNCHANGED <<config, df_combined, query_summary_data, df_summarized, toggles, report,
                   rerun_report, loader_vars, unique_list_of_attributes, normalizer_vars, extractor_vars>>

NextClassifier == SortAttributesByCharacters

SpecClassifier == InitClassifier /\ [][NextClassifier]_vars

-----------------------------------------------------------------------------
(* The extract_* functions on arbitrary values of the 'Query' column *)

Absent == [json |-> "absent"]

malware == <<"m","a","l","w","a","r","e">>
network == <<"n","e","t","w","o","r","k">>
SELECT_pid_FROM_users == <<"S","E","L","E","C","T"," ","p","i","d","\\","n","F","R","O","M"," ","u","s","e","r","s">>
scheduled == <<"s","c","h","e","d","u","l","e","d">>

\* What the text of a cell can hold under each key of the decoded object
NameValues == {Absent, JsonNull, JsonString(Q1)}
CommandValues == {Absent, JsonNull, JsonNumber, JsonString(SELECT_pid_FROM_users)}
PrincipalTypeValues == {Absent, JsonString(users)}
QueryIdValues == {Absent, JsonNumber, JsonString(Q2)}
QueryTypeValues == {Absent, JsonString(scheduled)}
CategoriesValues ==
    { Absent, JsonNull, Array(<<>>),
      Array(<< Object([name |-> JsonString(malware)]) >>),
      Array(<< Object([name |-> JsonString(malware)]), Object([name |-> JsonString(network)]) >>),
      Array(<< Object(<<>>) >>),
      Array(<< Object([name |-> JsonNull]) >>),
      Array(<< JsonString(malware) >>) }

\* The object whose keys are the ones that are not Absent
ObjectOfPresent(members) ==
    Object([key \in {k \in DOMAIN members : members[k].json # "absent"} |-> members[key]])

PayloadObjects ==
    { ObjectOfPresent([name |-> n, command |-> c, principalType |-> p, queryId |-> i,
                       queryType |-> t, categories |-> g]) :
        n \in NameValues, c \in CommandValues, p \in PrincipalTypeValues,
        i \in QueryIdValues, t \in QueryTypeValues, g \in CategoriesValues }

Payloads ==
    {NaN, Malformed, JsonNull, JsonNumber, JsonString(Q1), Array(<<>>)} \cup PayloadObjects

InitNormalizer ==
    /\ pc = "extract"
    /\ config = [summarize_query |-> FALSE, generate_json_summary |-> FALSE]
    /\ df_combined = <<>>
    /\ query_summary_data = <<>>
    /\ df_summarized = NoFrame
    /\ toggles = NoToggles
    /\ report = NoReport
    /\ rerun_report = NoReport
    /\ AllLoaded
    /\ ClassifierIdle
    /\ query_value \in Payloads
    /\ extracted = <<>>
    /\ ExtractorIdle

\* combined_df['Query'].apply(extract_*) for the six columns: the first
\* function that raises ends the run
ExtractColumns ==
    /\ pc = "extract"
    /\ extracted' = extracted_columns(query_value)
    /\ pc' = IF \E column \in DOMAIN extracted' : extracted'[column].raised
             THEN "raised" ELSE "extracted"
    /\ UNCHANGED <<config, df_combined, query_summary_data, df_summarized, toggles, report,
                   rerun_report, loader_vars, classifier_vars, query_value, extractor_vars>>

NextNormalizer == ExtractColumns

SpecNormalizer == InitNormalizer /\ [][NextNormalizer]_vars

-----------------------------------------------------------------------------
(* The statistics on arbitrary 'Region' and 'Created At (UTC)' columns *)

December_5 == <<"2","0","2","4","-","1","2","-","5">>
December_05 == <<"2","0","2","4","-","1","2","-","0","5">>
January_1 == <<"2","0","2","5","-","0","1","-","0","1">>
February_30 == <<"2","0","2","4","-","0","2","-","3","0">>

\* Creation dates: three distinct days, one of them also written without
\* the zero, and a day that does not exist
CreatedAtValues == {December_27, December_5, December_05, January_1, February_30}

RegionValues == {us, <<" ">> \o eu}

\* The arguments of the call in load_and_process_columns: True, True, True
\* and the default of summarize_tables_in_dataset
DriverToggles ==
    [summarize_osqueries |-> TRUE, summarize_queries_in_dataset |-> TRUE,
     summarize_attributes_in_dataset |-> TRUE, summarize_tables_in_dataset |-> FALSE]

\* Rows of the query Q1 on users, of any region and creation date
StatsRows ==
    { Row([json |-> "object", name |-> Q1,
           command |-> [tables |-> <<users>>, attributes |-> <<pid>>]],
          CaseList(<<c1>>), g1, region, created) :
        region \in RegionValues, created \in CreatedAtValues }

InitStats ==
    /\ pc = "loaded"
    /\ config = [summarize_query |-> TRUE, generate_json_summary |-> TRUE]
    /\ df_combined \in SeqsUpTo(StatsRows, MaxRecords)
    /\ query_summary_data = <<>>
    /\ df_summarized = NoFrame
    /\ toggles = NoToggles
    /\ report = NoReport
    /\ rerun_report = NoReport
    /\ AllLoaded
    /\ ClassifierIdle
    /\ NormalizerIdle
    /\ ExtractorIdle

NextStats ==
    \/ SummarizeCaseQueryData
    \/ ExportViewsToJsonWith(DriverToggles)

SpecStats == InitStats /\ [][NextStats]_vars

-----------------------------------------------------------------------------
(* The case and customer counts on arbitrary 'Possible Cases' and 'Customer ID' cells *)

g2 == <<"g","2">>

\* Cells that hold "['c1']", "['c1', 'c1']", no literal, "'c1'" and a number
CaseValues == {CaseList(<<c1>>), CaseList(<<c1, c1>>), NoLiteral, CaseString(c1), CaseNumber}

CustomerValues == {g1, <<" ">> \o g1, g2}

\* Rows of the query Q1 on users, of any case cell and customer
CountRows ==
    { Row([json |-> "object", name |-> Q1,
           command |-> [tables |-> <<users>>, attributes |-> <<pid>>]],
          cases, customer, us, December_27) :
        cases \in CaseValues, customer \in CustomerValues }

InitCounts ==
    /\ pc = "loaded"
    /\ config = [summarize_query |-> TRUE, generate_json_summary |-> TRUE]
    /\ df_combined \in SeqsUpTo(CountRows, MaxRecords)
    /\ query_summary_data = <<>>
    /\ df_summarized = NoFrame
    /\ toggles = NoToggles
    /\ report = NoReport
    /\ rerun_report = NoReport
    /\ AllLoaded
    /\ ClassifierIdle
    /\ NormalizerIdle
    /\ ExtractorIdle

NextCounts ==
    \/ SummarizeCaseQueryData
    \/ ExportViewsToJsonWith(DriverToggles)

SpecCounts == InitCounts /\ [][NextCounts]_vars

-----------------------------------------------------------------------------
(* load_and_process_columns from its first line: the three datasets are loaded *)

\* What pd.read_csv finds at the configured path of a dataset
FileStates == {"no_path", "missing", "unparsable", "present"}

\* load_dataframe as it would be if FileNotFoundError were raised again
\* after logging, as read_yaml_config does
load_dataframe_reraising(file, content) ==
    IF file = "no_path" THEN Returned(NoFrame)
    ELSE IF file = "missing" THEN Raised("FileNotFoundError")
    ELSE IF file = "unparsable" THEN Returned(NoFrame)
    ELSE Returned([is_frame |-> TRUE, rows |-> content])

\* load_dataframe: None for an empty path, for FileNotFoundError and for
\* ParserError, else the frame read from the file
load_dataframe(file, content) ==
    IF file = "no_path" THEN Returned(NoFrame)
    ELSE IF file = "missing" THEN Returned(NoFrame)
    ELSE IF file = "unparsable" THEN Returned(NoFrame)
    ELSE Returned([is_frame |-> TRUE, rows |-> content])

\* What the combined CSV holds when it is there: no row or one row, whose
\* Query is null or the query Q1 on users
LoaderRows ==
    { RowOfQuery(NaN),
      RowOfQuery([json |-> "object", name |-> Q1,
                  command |-> [tables |-> <<users>>, attributes |-> <<pid>>]]) }

CombinedContents == SeqsUpTo(LoaderRows, 1)

InitLoader ==
    /\ pc = Datasets[1]
    /\ config \in Configs
    /\ files \in [Range(Datasets) -> FileStates]
    /\ processed_dataframes = {}
    /\ df_combined = <<>>
    /\ query_summary_data = <<>>
    /\ df_summarized = NoFrame
    /\ toggles = NoToggles
    /\ report = NoReport
    /\ rerun_report = NoReport
    /\ ClassifierIdle
    /\ NormalizerIdle
    /\ ExtractorIdle

\* One round of the loop over case_manager_data and osquery_data; the rows
\* of these two datasets are only logged
LoadDataset ==
    /\ pc \in {Datasets[1], Datasets[2]}
    /\ LET dataset_name == pc
           df == load_dataframe(files[dataset_name], <<>>)
       IN IF df.raised
          THEN /\ pc' = "raised"
               /\ UNCHANGED processed_dataframes
          ELSE /\ pc' = IF dataset_name = Datasets[1] THEN Datasets[2] ELSE Datasets[3]
               /\ processed_dataframes' =
                     IF df.value.is_frame THEN processed_dataframes \cup {dataset_name}
                     ELSE processed_dataframes
    /\ UNCHANGED <<config, df_combined, query_summary_data, df_summarized, toggles, report,
                   rerun_report, files, classifier_vars, normalizer_vars, extractor_vars>>

\* The combined dataset: without a frame the function returns; with one, the
\* extracted_* columns are added (the extract_* functions return on these
\* rows, and no later step reads the columns) and the frame is stored
LoadCombined ==
    /\ pc = Datasets[3]
    /\ \E content \in CombinedContents :
          LET combined_df == load_dataframe(files[Datasets[3]], content)
          IN IF combined_df.raised
             THEN /\ pc' = "raised"
                  /\ UNCHANGED <<df_combined, processed_dataframes>>
             ELSE IF ~ combined_df.value.is_frame
             THEN /\ pc' = "done"
                  /\ UNCHANGED <<df_combined, processed_dataframes>>
             ELSE /\ pc' = "loaded"
                  /\ df_combined' = combined_df.value.rows
                  /\ processed_dataframes' = processed_dataframes \cup {Datasets[3]}
    /\ UNCHANGED <<config, query_summary_data, df_summarized, toggles, report,
                   rerun_report, files, classifier_vars, normalizer_vars, extractor_vars>>

NextLoader ==
    \/ LoadDataset
    \/ LoadCombined
    \/ SummarizeCaseQueryData
    \/ SkipSummarize
    \/ ExportViewsToJsonWith(DriverToggles)
    \/ SkipExport

SpecLoader == InitLoader /\ [][NextLoader]_vars

-----------------------------------------------------------------------------
(* extract_sql_details on arbitrary SQL texts *)

from == <<"f","r","o","m">>
JOIN == <<"J","O","I","N">>
valid_from == <<"v","a","l","i","d","_","f","r","o","m">>

\* Texts of up to MaxSqlWords words separated by one space
SqlWords == {SELECT, pid, FROM, from, users, JOIN, valid_from}
FromTexts == { join(<<" ">>, words) : words \in SeqsUpTo(SqlWords, MaxSqlWords) }

\* Clauses of every kind the loop of extract_attribute_names tells apart
SelectClauses ==
    { pid, <<" ">> \o pid, <<"p",".","p","i","d">>, <<"a",".","b",".","c">>, <<"*">>, <<"p",".","*">>, <<"c","o","u","n","t","(","*",")"," ","A","S"," ","n">>, <<"p","i","d"," ","A","S"," ","p">>,
      <<"u",".","p","i","d"," ","a","s"," ","p">>, <<"x"," ","A","S">>, <<"S","T","R","F","T","I","M","E","(","x",")">>, <<"s","t","r","f","t","i","m","e","(","t",".","x",")">>, <<"d","a","t","e","t","i","m","e","(","x",")">>, <<"j","s","o","n","_","e","x","t","r","a","c","t","(","x",")">> }

\* SELECT with up to MaxClauses clauses FROM users
SelectTexts ==
    { SELECT \o <<" ">> \o join(<<",">>, clauses) \o <<" ">> \o FROM \o <<" ">> \o users :
        clauses \in SeqsUpTo(SelectClauses, MaxClauses) }

InitExtractor ==
    /\ pc = "extract_sql"
    /\ config = [summarize_query |-> FALSE, generate_json_summary |-> FALSE]
    /\ df_combined = <<>>
    /\ query_summary_data = <<>>
    /\ df_summarized = NoFrame
    /\ toggles = NoToggles
    /\ report = NoReport
    /\ rerun_report = NoReport
    /\ AllLoaded
    /\ ClassifierIdle
    /\ NormalizerIdle
    /\ sql_text \in FromTexts \cup SelectTexts
    /\ sql_details = <<>>

ExtractSqlDetails ==
    /\ pc = "extract_sql"
    /\ pc' = "sql_extracted"
    /\ sql_details' = extract_sql_details_of_text(sql_text)
    /\ UNCHANGED <<config, df_combined, query_summary_data, df_summarized, toggles, report,
                   rerun_report, loader_vars, classifier_vars, normalizer_vars, sql_text>>

NextExtractor == ExtractSqlDetails

SpecExtractor == InitExtractor /\ [][NextExtractor]_vars

-----------------------------------------------------------------------------
(* Properties *)

\* The report has been written with the query section enabled
QueriesReported == report.written /\ toggles.summarize_queries_in_dataset

ReportedQueries == report.osquery_summary.os_query_input_query_summary.members.queries

\* summarize_case_query_data has run (to its return or to the KeyError)
Summarized == pc # "loaded" /\ config.summarize_query

\* C1: the sum of frequency_of_execution over the groups of the report's
\* query list equals the number of input records.
C1_FrequencySumEqualsRecordCount ==
    QueriesReported =>
        Sum([g \in 1..Len(ReportedQueries) |-> ReportedQueries[g].frequency_of_execution])
            = Len(df_combined)

\* The entry kept for a record that yields no facts
SentinelEntry ==
    [ query_name |-> <<"U","n","n","a","m","e","d">>,
      os_query_table |-> <<>>, unique_osquery_table |-> <<>>,
      query_attributes |-> <<>>, unique_osquery_attributes |-> <<>> ]

\* C2: summarize_case_query_data emits exactly one fact entry per input row,
\* and for a row whose Query fails to decode the entry has the sentinel name
\* and empty table and attribute lists.
C2_OneFactPerRow ==
    Summarized =>
        /\ Len(query_summary_data) = Len(df_combined)
        /\ \A i \in 1..Len(df_combined) :
              JSONDecodeError(df_combined[i].Query) => query_summary_data[i] = SentinelEntry

\* C3: every token that quarantine removed from a record's table list or
\* attribute list appears in the removed list the report carries for the
\* record's query group.
C3_RemovedTokensInGroupAudit ==
    QueriesReported =>
        \A i \in 1..Len(df_summarized.rows) :
            \A token \in Range(df_summarized.rows[i].os_query_table_removed_items)
                         \cup Range(df_summarized.rows[i].query_attributes_removed_items) :
                \E g \in 1..Len(ReportedQueries) :
                    /\ ReportedQueries[g].query_name = df_summarized.rows[i].query_name
                    /\ token \in Range(ReportedQueries[g].parsing_error_sql_content)

\* The elements of lst at the indices of I, in order
Restrict(lst, I) ==
    LET F[k \in 0..Len(lst)] ==
            IF k = 0 THEN <<>>
            ELSE IF k \in I THEN Append(F[k - 1], lst[k]) ELSE F[k - 1]
    IN F[Len(lst)]

\* clean and removed split original: they are the subsequences of original at
\* complementary index sets, and no element value is in both
SplitsInOrder(original, clean, removed) ==
    /\ Len(removed) + Len(clean) = Len(original)
    /\ \E I \in SUBSET (1..Len(original)) :
          /\ clean = Restrict(original, I)
          /\ removed = Restrict(original, (1..Len(original)) \ I)
    /\ \A x \in Range(original) : (x \in Range(clean)) # (x \in Range(removed))

\* C4: after _check_for_sql_parse_errors, for every record and for both the
\* table list and the attribute list, the clean list and the removed list are
\* order-preserving subsequences of the extracted list, their lengths add up
\* to its length, and every extracted element is in exactly one of them.
C4_QuarantineRoundTrip ==
    pc = "summarized" /\ config.summarize_query =>
        \A i \in 1..Len(query_summary_data) :
            /\ SplitsInOrder(query_summary_data[i].os_query_table,
                             df_summarized.rows[i].os_query_table,
                             df_summarized.rows[i].os_query_table_removed_items)
            /\ SplitsInOrder(query_summary_data[i].query_attributes,
                             df_summarized.rows[i].query_attributes,
                             df_summarized.rows[i].query_attributes_removed_items)

C4_Witness ==
    /\ pc = "summarized" /\ config.summarize_query
    /\ \E i \in 1..Len(query_summary_data) :
          /\ Len(df_summarized.rows[i].os_query_table) >= 1
          /\ Len(df_summarized.rows[i].os_query_table_removed_items) >= 1
          /\ Len(df_summarized.rows[i].query_attributes) >= 1
          /\ Len(df_summarized.rows[i].query_attributes_removed_items) >= 1

\* keyword occurs in token at some offset
Contains(token, keyword) ==
    \E offset \in 0..(Len(token) - Len(keyword)) :
        \A k \in 1..Len(keyword) : token[offset + k] = keyword[k]

ContainsKeyword(token) ==
    \E d \in 1..Len(sql_keywords_to_log_and_remove) :
        Contains(token, sql_keywords_to_log_and_remove[d])

ContainsKeywordIgnoringCase(token) ==
    \E d \in 1..Len(sql_keywords_to_log_and_remove) :
        Contains(Upper(token), Upper(sql_keywords_to_log_and_remove[d]))

IsKeyword(token) ==
    \E d \in 1..Len(sql_keywords_to_log_and_remove) : token = sql_keywords_to_log_and_remove[d]

\* Table quarantine removes exactly the tokens equal to a denylist token
TablesRemovedIffKeyword ==
    \A i \in 1..Len(query_summary_data) :
        \A token \in Range(query_summary_data[i].os_query_table) :
            token \in Range(df_summarized.rows[i].os_query_table_removed_items) <=> IsKeyword(token)

\* C5 as stated: an attribute token is moved to the removed list if and only
\* if it contains a denylist token ignoring letter case; a table token if and
\* only if it equals a denylist token.
C5_AttributeMatchIgnoresCase ==
    pc = "summarized" /\ config.summarize_query =>
        /\ TablesRemovedIffKeyword
        /\ \A i \in 1..Len(query_summary_data) :
              \A token \in Range(query_summary_data[i].query_attributes) :
                  token \in Range(df_summarized.rows[i].query_attributes_removed_items)
                      <=> ContainsKeywordIgnoringCase(token)

\* C5 amended: an attribute token is moved to the removed list if and only if
\* it contains a denylist token in the denylist's own (upper) case; a table
\* token if and only if it equals a denylist token.
C5_AttributeMatchIsCaseSensitive ==
    pc = "summarized" /\ config.summarize_query =>
        /\ TablesRemovedIffKeyword
        /\ \A i \in 1..Len(query_summary_data) :
              \A token \in Range(query_summary_data[i].query_attributes) :
                  token \in Range(df_summarized.rows[i].query_attributes_removed_items)
                      <=> ContainsKeyword(token)

C5_Witness ==
    /\ pc = "summarized" /\ config.summarize_query
    /\ \E i \in 1..Len(query_summary_data) :
          /\ char \in Range(df_summarized.rows[i].query_attributes)
          /\ uid_CHAR \in Range(df_summarized.rows[i].query_attributes_removed_items)
          /\ GROUPS \in Range(df_summarized.rows[i].os_query_table)
          /\ SELECT \in Range(df_summarized.rows[i].os_query_table_removed_items)

SectionKeys ==
    { "os_query_data_analysis_stats", "os_query_input_query_summary",
      "os_query_table_analysis_summary", "os_query_attribute_analysis_summary" }

IsEmptyObject(value) == value.json = "object" /\ DOMAIN value.members = {}

\* C6: for every combination of the four toggles the report has exactly the
\* four section keys under osquery_summary, and every section whose toggle is
\* false is the empty object.
C6_DisabledSectionsAreEmpty ==
    report.written =>
        /\ DOMAIN report.osquery_summary = SectionKeys
        /\ ~ toggles.summarize_osqueries
              => IsEmptyObject(report.osquery_summary.os_query_data_analysis_stats)
        /\ ~ toggles.summarize_queries_in_dataset
              => IsEmptyObject(report.osquery_summary.os_query_input_query_summary)
        /\ ~ toggles.summarize_attributes_in_dataset
              => IsEmptyObject(report.osquery_summary.os_query_attribute_analysis_summary)
        /\ ~ toggles.summarize_tables_in_dataset
              => IsEmptyObject(report.osquery_summary.os_query_table_analysis_summary)

QueriesByPercentage ==
    report.osquery_summary.os_query_input_query_summary.members.queries_by_percentage

\* The index of the first input record that carries the query name
FirstEncounter(name) ==
    Min({ i \in 1..Len(df_combined) :
            /\ df_combined[i].Query.json = "object"
            /\ df_combined[i].Query.name = name })

NonIncreasingPercentage ==
    \A k, l \in 1..Len(QueriesByPercentage) :
        k < l => QueriesByPercentage[k][2] >= QueriesByPercentage[l][2]

\* C7 as stated: queries_by_percentage is in non-increasing order of
\* percentage, and groups of equal percentage are in the order in which their
\* names were first encountered in the input.
C7_TiesInFirstEncounterOrder ==
    QueriesReported =>
        /\ NonIncreasingPercentage
        /\ \A k, l \in 1..Len(QueriesByPercentage) :
              k < l /\ QueriesByPercentage[k][2] = QueriesByPercentage[l][2]
                 => FirstEncounter(QueriesByPercentage[k][1]) < FirstEncounter(QueriesByPercentage[l][1])

\* C7 amended: queries_by_percentage is in non-increasing order of
\* percentage, and groups of equal percentage are in ascending order of
\* their query names.
C7_TiesInNameOrder ==
    QueriesReported =>
        /\ NonIncreasingPercentage
        /\ \A k, l \in 1..Len(QueriesByPercentage) :
              k < l /\ QueriesByPercentage[k][2] = QueriesByPercentage[l][2]
                 => StrLess(QueriesByPercentage[k][1], QueriesByPercentage[l][1])

\* Two groups of equal percentage, the later name encountered first
C7_Witness ==
    /\ QueriesReported
    /\ Len(QueriesByPercentage) = 2
    /\ QueriesByPercentage[1][2] = QueriesByPercentage[2][2]
    /\ FirstEncounter(QueriesByPercentage[2][1]) < FirstEncounter(QueriesByPercentage[1][1])

Buckets ==
    << result.alphabetical_attributes, result.alphabetical_and_non_numeric,
       result.non_alphabetic, result.not_sorted >>

\* C8: __sort_attributes_by_characters places each token of the vocabulary in
\* exactly one of the four buckets, and the buckets hold nothing else.
C8_BucketsPartitionVocabulary ==
    pc = "classified" =>
        /\ \A s \in Range(unique_list_of_attributes) :
              Cardinality({ b \in 1..4 : s \in Range(Buckets[b]) }) = 1
        /\ \A b \in 1..4 : Range(Buckets[b]) \subseteq Range(unique_list_of_attributes)
        /\ Sum([b \in 1..4 |-> Len(Buckets[b])]) = Len(unique_list_of_attributes)

\* A vocabulary that fills the catch-all bucket and another one
C8_Witness ==
    /\ pc = "classified"
    /\ Len(result.not_sorted) >= 1
    /\ Len(unique_list_of_attributes) > Len(result.not_sorted)

Apostrophes(s) == Cardinality({ i \in 1..Len(s) : s[i] = "'" })

\* Letters, optionally mixed with digits, underscores or a single apostrophe
LettersOptionallyMixed(s) ==
    /\ \A i \in 1..Len(s) :
          s[i] \in UpperCase \cup LowerCase \cup Digits \cup {"_", "'"}
    /\ \E i \in 1..Len(s) : s[i] \in UpperCase \cup LowerCase
    /\ Apostrophes(s) <= 1

\* C9: a token is in alphabetical_attributes if and only if it consists
\* solely of letters optionally mixed with digits, underscores or a single
\* apostrophe, and every token without a letter is in non_alphabetic.
C9_AlphabeticalIffLettersMixed ==
    pc = "classified" =>
        \A s \in Range(unique_list_of_attributes) :
            /\ s \in Range(result.alphabetical_attributes) <=> LettersOptionallyMixed(s)
            /\ (~ \E i \in 1..Len(s) : s[i] \in UpperCase \cup LowerCase)
                  => s \in Range(result.non_alphabetic)

\* C10 as stated: not_sorted is empty for every vocabulary.
C10_NotSortedIsEmpty ==
    pc = "classified" => result.not_sorted = <<>>

\* Only word characters, of which one is an ASCII letter and one is outside ASCII
NonAsciiWord(s) ==
    /\ \A i \in 1..Len(s) : s[i] \in UpperCase \cup LowerCase \cup Digits \cup {"_", "é"}
    /\ \E i \in 1..Len(s) : s[i] \in UpperCase \cup LowerCase
    /\ \E i \in 1..Len(s) : s[i] = "é"

\* C10 amended: not_sorted holds exactly the tokens made of word characters
\* only that contain an ASCII letter and a word character outside ASCII; it is
\* empty when every token of the vocabulary is ASCII.
C10_NotSortedHoldsNonAsciiWords ==
    pc = "classified" =>
        /\ \A s \in Range(unique_list_of_attributes) :
              s \in Range(result.not_sorted) <=> NonAsciiWord(s)
        /\ (\A s \in Range(unique_list_of_attributes) : "é" \notin Range(s))
              => result.not_sorted = <<>>

C10_Witness ==
    /\ pc = "classified"
    /\ <<"a", "é">> \in Range(result.not_sorted)
    /\ <<"é">> \in Range(result.non_alphabetic)

-----------------------------------------------------------------------------
(* C11 *)

\* C11: running the pipeline twice on identical input gives an identical
\* report: every list of the second report has the same elements in the same
\* order as in the first.
C11_RerunGivesIdenticalReport ==
    rerun_report.written => rerun_report.osquery_summary = report.osquery_summary

-----------------------------------------------------------------------------
(* C12 *)

\* C12: failures of single records never abort the run: whatever the rows of
\* the loaded dataset are, also when the Query of every row is null or does
\* not decode, summarize_case_query_data and export_views_to_json complete
\* and, when the export is on, a report is written.
C12_RecordFailuresNeverAbort ==
    config.summarize_query =>
        /\ pc # "raised"
        /\ (pc = "done" /\ config.generate_json_summary) => report.written

-----------------------------------------------------------------------------
(* C13 *)

\* C13: the extract_* functions never raise: for every value of the Query
\* column (null, a text that does not decode, JSON that decodes to something
\* other than an object, an object whose command is null or no string, an
\* object whose categories is null or holds entries that are no objects) each
\* of them returns a value.
C13_NormalizerNeverRaises ==
    \A column \in DOMAIN extracted : ~ extracted[column].raised

-----------------------------------------------------------------------------
(* C14 *)

\* The key each column reads and the sentinel that stands for it
SentinelOfColumn ==
    [ extracted_name |-> << "name", Unnamed >>,
      extracted_query_id |-> << "queryId", ID_not_available >>,
      extracted_query_type |-> << "queryType", Type_not_available >>,
      extracted_principal_type |-> << "principalType", Type_not_available >>,
      extracted_query_categories |-> << "categories", Categories_not_available >> ]

\* C14: for a Query that decodes to an object, every field whose key is
\* absent resolves to its sentinel: name to "Unnamed", queryId to "ID not
\* available", queryType and principalType to "Type not available",
\* categories to "Categories not available".
C14_AbsentKeyResolvesToSentinel ==
    (pc # "extract" /\ query_value.json = "object") =>
        \A column \in DOMAIN SentinelOfColumn :
            SentinelOfColumn[column][1] \notin DOMAIN query_value.members =>
                extracted[column] = Returned(JsonString(SentinelOfColumn[column][2]))

-----------------------------------------------------------------------------
(* C15 *)

\* C15: for every group of the report, query_execution_percentage is
\* 100 * frequency_of_execution / total_record_count up to rounding (here
\* within one thousandth of a percent), where total_record_count is the
\* number of rows of the input dataset.
C15_PercentageOfInputRows ==
    QueriesReported =>
        \A g \in 1..Len(ReportedQueries) :
            LET difference ==
                    ReportedQueries[g].query_execution_percentage * Len(df_combined)
                        - ReportedQueries[g].frequency_of_execution * 100000
            IN difference \in (0 - Len(df_combined))..Len(df_combined)

-----------------------------------------------------------------------------
(* C16 *)

QueriesByPercentageCount ==
    report.osquery_summary.os_query_input_query_summary.members.queries_by_percentage_count

TableSummary == report.osquery_summary.os_query_table_analysis_summary.members

\* The <<table, percentage>> pairs of total_table_query_count
TablePercentages == TableSummary.total_table_query_count[2]

\* C16: every percentage of the report lies between 0 and 100: those of
\* queries, queries_by_percentage and queries_by_percentage_count (in
\* thousandths of a percent) and those of total_table_query_count (in
\* hundredths of a percent).
C16_PercentagesBetween0And100 ==
    /\ QueriesReported =>
          /\ \A g \in 1..Len(ReportedQueries) :
                ReportedQueries[g].query_execution_percentage \in 0..100000
          /\ \A k \in 1..Len(QueriesByPercentage) : QueriesByPercentage[k][2] \in 0..100000
          /\ \A k \in 1..Len(QueriesByPercentageCount) :
                QueriesByPercentageCount[k][2].query_execution_percentage \in 0..100000
    /\ report.written =>
          \A t \in 1..Len(TablePercentages) : TablePercentages[t][2] \in 0..10000

\* A report of one group executed more than once, and of two groups and two
\* tables that share the total
C16_Witness ==
    /\ QueriesReported
    /\ Len(ReportedQueries) = 2
    /\ ReportedQueries[1].frequency_of_execution = 2
    /\ ReportedQueries[1].query_execution_percentage = 66667
    /\ ReportedQueries[2].query_execution_percentage = 33333
    /\ Len(TablePercentages) = 2
    /\ TablePercentages[1][2] = 6667
    /\ TablePercentages[2][2] = 3333

-----------------------------------------------------------------------------
(* C17 *)

\* The rows of the cleaned summary that belong to the group of a name
MemberRecords(name) ==
    { i \in 1..Len(df_summarized.rows) : df_summarized.rows[i].query_name = name }

NoDuplicates(list) == \A i, j \in 1..Len(list) : i # j => list[i] # list[j]

\* C17: for every group, unique_tables_queried lists each table once, and as
\* a set it is the union of the unique-table sets of the group's member
\* records.
C17_UniqueTablesAreUnionOfMembers ==
    QueriesReported =>
        \A g \in 1..Len(ReportedQueries) :
            /\ NoDuplicates(ReportedQueries[g].unique_tables_queried)
            /\ Range(ReportedQueries[g].unique_tables_queried)
                 = UNION { Range(df_summarized.rows[i].unique_osquery_table) :
                              i \in MemberRecords(ReportedQueries[g].query_name) }

\* A group of three member records, two of which query the same table
C17_Witness ==
    /\ QueriesReported
    /\ \E g \in 1..Len(ReportedQueries) :
          /\ Cardinality(MemberRecords(ReportedQueries[g].query_name)) = 3
          /\ Len(ReportedQueries[g].unique_tables_queried) = 2
          /\ \E i, j \in MemberRecords(ReportedQueries[g].query_name) :
                /\ i # j
                /\ df_summarized.rows[i].unique_osquery_table # <<>>
                /\ df_summarized.rows[i].unique_osquery_table
                     = df_summarized.rows[j].unique_osquery_table

-----------------------------------------------------------------------------
(* C18 *)

\* The <<table, list>> pairs of table_counts_by_queries
TableCountsByQueries == TableSummary.table_counts_by_queries

\* C18: in table_counts_by_queries the list of every table begins with a
\* single total_queries entry, whose value is the sum of
\* number_of_times_queried over the other entries; a query name occurs in at
\* most one entry of a table; the tables are in non-increasing order of
\* total_queries.
C18_TableCountsByQueries ==
    report.written =>
        /\ \A t \in 1..Len(TableCountsByQueries) :
              LET entries == TableCountsByQueries[t][2]
              IN /\ Len(entries) >= 1
                 /\ DOMAIN entries[1] = {"total_queries"}
                 /\ \A e \in 2..Len(entries) :
                       DOMAIN entries[e] = {"query_name", "number_of_times_queried"}
                 /\ entries[1].total_queries
                      = Sum([e \in 1..(Len(entries) - 1) |-> entries[e + 1].number_of_times_queried])
                 /\ \A e, f \in 2..Len(entries) :
                       e # f => entries[e].query_name # entries[f].query_name
        /\ \A t, u \in 1..Len(TableCountsByQueries) :
              t < u => TableCountsByQueries[t][2][1].total_queries
                          >= TableCountsByQueries[u][2][1].total_queries

\* Two tables, the second of the input queried more often than the first and
\* by two query names
C18_Witness ==
    /\ report.written
    /\ Len(TableCountsByQueries) = 2
    /\ Len(TableCountsByQueries[1][2]) = 3
    /\ TableCountsByQueries[1][2][1].total_queries = 2
    /\ TableCountsByQueries[2][2][1].total_queries = 1
    /\ df_summarized.rows[1].os_query_table = << TableCountsByQueries[2][1] >>

-----------------------------------------------------------------------------
(* C19 *)

StatsReported == report.written /\ toggles.summarize_osqueries

ReportedStats == report.osquery_summary.os_query_data_analysis_stats.items[1]

\* The dates of the entries of 'Created At (UTC)' that parse as %Y-%m-%d
ParsedDates ==
    { strptime(strip(df_combined[i].Created_At_UTC)) :
        i \in { j \in 1..Len(df_combined) : strptime(strip(df_combined[j].Created_At_UTC)).valid } }

DateKey(date) == date.year * 10000 + date.month * 100 + date.day

Earliest == CHOOSE date \in ParsedDates : \A other \in ParsedDates : DateKey(date) <= DateKey(other)
MostRecent == CHOOSE date \in ParsedDates : \A other \in ParsedDates : DateKey(date) >= DateKey(other)

\* C19: date_range is the range of the date column: it holds the earliest and
\* the most recent date among the entries that parse as YYYY-MM-DD, and
\* nothing else; entries that do not parse are left out.
C19_DateRangeIsEarliestAndMostRecent ==
    StatsReported =>
        Range(ReportedStats.date_range)
            = IF ParsedDates = {} THEN {}
              ELSE { str_datetime(Earliest), str_datetime(MostRecent) }

-----------------------------------------------------------------------------
(* C20 *)

\* load_and_process_columns is past the load of the dataset
Attempted(dataset_name) ==
    \/ pc \notin Range(Datasets)
    \/ \E i, j \in 1..Len(Datasets) : i < j /\ Datasets[i] = dataset_name /\ Datasets[j] = pc

-----------------------------------------------------------------------------
(* C21 *)

\* Three records named Q1, Q1, Q2 whose SQL yields the tables [users],
\* [users], [processes]
Q1Q1Q2 ==
    /\ Len(df_combined) = 3
    /\ \A i \in 1..3 : df_combined[i].Query.json = "object"
    /\ [i \in 1..3 |-> df_combined[i].Query.name] = <<Q1, Q1, Q2>>
    /\ [i \in 1..3 |-> df_combined[i].Query.command.tables] = << <<users>>, <<users>>, <<processes>> >>

\* C21: for the records Q1, Q1, Q2 on [users], [users], [processes] the
\* query list of the report has exactly two groups, Q1 with frequency 2 and
\* 66.667 percent and Q2 with frequency 1 and 33.333 percent, and Q1 comes
\* before Q2 in queries_by_percentage.
C21_EndToEndQ1Q1Q2 ==
    (QueriesReported /\ Q1Q1Q2) =>
        /\ Len(ReportedQueries) = 2
        /\ \E g, h \in 1..2 :
              /\ ReportedQueries[g].query_name = Q1
              /\ ReportedQueries[g].frequency_of_execution = 2
              /\ ReportedQueries[g].query_execution_percentage = 66667
              /\ ReportedQueries[h].query_name = Q2
              /\ ReportedQueries[h].frequency_of_execution = 1
              /\ ReportedQueries[h].query_execution_percentage = 33333
        /\ [k \in 1..Len(QueriesByPercentage) |-> QueriesByPercentage[k][1]] = <<Q1, Q2>>

C21_Witness == QueriesReported /\ Q1Q1Q2

-----------------------------------------------------------------------------
(* C22 *)

\* The word FROM stands at position i of sql_text, in any case, followed by
\* whitespace and an identifier
FromKeywordAt(i) ==
    /\ MatchesAt(sql_text, i, FROM)
    /\ (i = 1 \/ ~ IsWordChar(sql_text[i - 1]))
    /\ SpaceRunEnd(sql_text, i + 4) > i + 4
    /\ WordRunEnd(sql_text, SpaceRunEnd(sql_text, i + 4)) > SpaceRunEnd(sql_text, i + 4)

RECURSIVE IdentifiersAfterFrom(_)
\* The identifiers that follow the FROM keywords found from position p on;
\* an identifier that follows a FROM is not read again as a keyword
IdentifiersAfterFrom(p) ==
    IF p > Len(sql_text) THEN <<>>
    ELSE IF FromKeywordAt(p)
    THEN LET name == SpaceRunEnd(sql_text, p + 4)
             end == WordRunEnd(sql_text, name)
         IN << SubSeq(sql_text, name, end - 1) >> \o IdentifiersAfterFrom(end)
    ELSE IdentifiersAfterFrom(p + 1)

\* C22: the tables extract_sql_details returns are exactly the identifiers
\* that follow each FROM keyword (in any case) and whitespace, in order of
\* appearance with duplicates kept, so that a table introduced by JOIN is not
\* among them; a text without FROM yields no table and no attribute.
C22_TablesFollowFromKeywords ==
    pc = "sql_extracted" =>
        /\ sql_details.tables_queried = IdentifiersAfterFrom(1)
        /\ (\A i \in 1..Len(sql_text) : ~ MatchesAt(sql_text, i, FROM)) =>
              /\ sql_details.tables_queried = <<>>
              /\ sql_details.extracted_attributes = <<>>

-----------------------------------------------------------------------------
(* C23 *)

\* The clause has no '*' and no AS keyword but has a '.'
DotClause(item) ==
    /\ "*" \notin Range(item)
    /\ AsKeywords(item) = {}
    /\ "." \in Range(item)

AfterFirstDot(item) ==
    SubSeq(item, Min({ i \in 1..Len(item) : item[i] = "." }) + 1, Len(item))

\* C23: for a clause without '*' and without AS that contains a '.', the
\* attribute emitted is the whole substring after the first '.', further '.'
\* and the text after them included.
C23_DotRuleEmitsRestAfterFirstDot ==
    pc = "sql_extracted" =>
        sql_details.extracted_attributes
            = _flatten([i \in 1..Len(select_items(sql_text)) |->
                          IF DotClause(select_items(sql_text)[i])
                          THEN << AfterFirstDot(select_items(sql_text)[i]) >>
                          ELSE attributes_of_item(select_items(sql_text)[i])])

-----------------------------------------------------------------------------
(* C24 *)

\* What a clause yields when the rules are tried in the order wildcard, AS,
\* dot, verbatim
ByPrecedence(item) ==
    CASE "*" \in Range(item) -> << all_columns_returned >>
      [] "*" \notin Range(item) /\ AsKeywords(item) # {} ->
            IF AliasStarts(item) # {} THEN << alias_group(item) >> ELSE <<>>
      [] DotClause(item) -> << split(item, ".")[2] >>
      [] OTHER -> IF search_excluded(item) THEN <<>> ELSE << item >>

\* C24: the clause rules are applied in the precedence wildcard > AS > dot >
\* verbatim and every clause yields at most one attribute: a clause with '*'
\* yields the wildcard marker also when it has AS or '.', and a clause of
\* the exclusion set without '*', AS and '.' yields nothing.
C24_ClauseRulesInPrecedence ==
    pc = "sql_extracted" =>
        /\ Len(sql_details.extracted_attributes) <= Len(select_items(sql_text))
        /\ sql_details.extracted_attributes
             = _flatten([i \in 1..Len(select_items(sql_text)) |->
                           ByPrecedence(select_items(sql_text)[i])])

\* A wildcard clause that also has AS, followed by a clause of the exclusion
\* set: only the marker is emitted
C24_Witness ==
    /\ pc = "sql_extracted"
    /\ Len(select_items(sql_text)) = 2
    /\ "*" \in Range(select_items(sql_text)[1]) /\ AsKeywords(select_items(sql_text)[1]) # {}
    /\ search_excluded(select_items(sql_text)[2]) /\ ~ DotClause(select_items(sql_text)[2])
    /\ sql_details.extracted_attributes = << all_columns_returned >>

(* C25: with summarize_osqueries enabled the member os_query_data_analysis_stats
   of the report is a single object that holds the seven statistics directly,
   the same kind of JSON value (an object) as the {} written when the toggle
   is off. *)
StatKeys ==
    { "total_number_queries_analyzed", "number_of_unique_cases",
      "total_number_of_cases_analyzed", "number_of_unique_customers",
      "total_number_of_customers_analyzed", "region_list", "date_range" }

C25_StatsSectionIsOneObject ==
    report.written =>
        LET stats == report.osquery_summary.os_query_data_analysis_stats
        IN /\ stats.json = "object"
           /\ toggles.summarize_osqueries => DOMAIN stats.members = StatKeys

-----------------------------------------------------------------------------
(* C26 *)

\* The group of the query list with the given name
GroupNamed(key) ==
    ReportedQueries[CHOOSE g \in 1..Len(ReportedQueries) : ReportedQueries[g].query_name = key]

\* C26: queries_by_percentage_count has the keys of queries_by_percentage in
\* the same order; the entry of a key holds the frequency of that group as
\* its count and the percentage of that group as its percentage; and
\* queries_by_percentage still maps every key to the plain percentage.
C26_CountViewAgreesWithPercentageView ==
    QueriesReported =>
        /\ Len(QueriesByPercentageCount) = Len(QueriesByPercentage)
        /\ \A k \in 1..Len(QueriesByPercentage) :
              LET key == QueriesByPercentage[k][1]
              IN /\ QueriesByPercentageCount[k][1] = key
                 /\ \E g \in 1..Len(ReportedQueries) : ReportedQueries[g].query_name = key
                 /\ QueriesByPercentageCount[k][2] =
                        [ query_execution_percentage |-> GroupNamed(key).query_execution_percentage,
                          query_execution_count |-> GroupNamed(key).frequency_of_execution ]
                 /\ QueriesByPercentage[k][2] = GroupNamed(key).query_execution_percentage

\* A report whose groups are listed in another order than their percentages
C26_Witness ==
    /\ QueriesReported
    /\ Len(ReportedQueries) >= 2
    /\ [k \in 1..Len(QueriesByPercentage) |-> QueriesByPercentage[k][1]]
           # [g \in 1..Len(ReportedQueries) |-> ReportedQueries[g].query_name]

-----------------------------------------------------------------------------
(* C27 *)

\* The <<table, count>> pairs of total_table_query_count
TableCounts == TableSummary.total_table_query_count[1]

\* The occurrences of a table over the cleaned table lists of all records
Occurrences(table) ==
    Sum([i \in 1..Len(df_summarized.rows) |-> Count(df_summarized.rows[i].os_query_table, table)])

-----------------------------------------------------------------------------
(* C28 *)

\* C28: after quarantine, in every record unique_osquery_table has the
\* elements of the cleaned os_query_table, unique_osquery_attributes has the
\* elements of the cleaned query_attributes, no clean table list holds a
\* token equal to a denylist token and no clean attribute list holds a token
\* that contains one.
C28_UniqueListsMatchCleanedLists ==
    pc = "summarized" /\ config.summarize_query =>
        \A i \in 1..Len(df_summarized.rows) :
            LET row == df_summarized.rows[i]
            IN /\ Range(row.unique_osquery_table) = Range(row.os_query_table)
               /\ Range(row.unique_osquery_attributes) = Range(row.query_attributes)
               /\ \A token \in Range(row.os_query_table) \cup Range(row.unique_osquery_table) :
                     ~ IsKeyword(token)
               /\ \A token \in Range(row.query_attributes) \cup Range(row.unique_osquery_attributes) :
                     ~ ContainsKeyword(token)

\* A record that lost a table and an attribute to quarantine and kept one of each
C28_Witness ==
    /\ pc = "summarized" /\ config.summarize_query
    /\ \E i \in 1..Len(df_summarized.rows) :
          LET row == df_summarized.rows[i]
          IN /\ row.os_query_table_removed_items # <<>>
             /\ row.query_attributes_removed_items # <<>>
             /\ row.unique_osquery_table # <<>>
             /\ row.unique_osquery_attributes # <<>>

-----------------------------------------------------------------------------
(* C29 *)

\* C29: whatever summarize_query and generate_json_summary are,
\* load_and_process_columns raises nothing on a loaded dataset, and once it
\* has completed with generate_json_summary enabled the report is written,
\* with summarize_query disabled too.
C29_EveryToggleCombinationCompletes ==
    /\ ~ config.summarize_query => pc # "raised"
    /\ pc = "done" /\ config.generate_json_summary => report.written

-----------------------------------------------------------------------------
(* C30 *)

\* The rows of the dataset whose 'Possible Cases' cell is a list literal
ListRows == { i \in 1..Len(df_combined) : df_combined[i].Possible_Cases.literal = "list" }

\* C30: in the statistics of every dataset number_of_unique_cases is at most
\* total_number_of_cases_analyzed, number_of_unique_customers is at most
\* total_number_of_customers_analyzed, which equals
\* total_number_queries_analyzed; only the rows whose case cell is a list
\* literal count towards the two case counts, the other rows being skipped
\* without an error; and region_list names no region twice.
C30_CountsAreConsistent ==
    /\ pc = "raised" => query_summary_data = <<>>
    /\ StatsReported =>
          /\ ReportedStats.number_of_unique_cases <= ReportedStats.total_number_of_cases_analyzed
          /\ ReportedStats.number_of_unique_customers <= ReportedStats.total_number_of_customers_analyzed
          /\ ReportedStats.total_number_of_customers_analyzed = ReportedStats.total_number_queries_analyzed
          /\ ReportedStats.total_number_of_cases_analyzed
                = Sum([i \in 1..Len(df_combined) |->
                          IF i \in ListRows THEN Len(df_combined[i].Possible_Cases.items) ELSE 0])
          /\ ReportedStats.number_of_unique_cases
                = Cardinality(UNION { Range(df_combined[i].Possible_Cases.items) : i \in ListRows })
          /\ NoDuplicates(ReportedStats.region_list)

====
